---- MODULE Spec2Model ----
(***************************************************************************)
(* Model of the Fleet API client of blampe/powerwall: the request pipeline *)
(* of client.go (rate limiter, OAuth token refresh, status classification) *)
(* run by concurrent callers that share one Client.                        *)
(*                                                                         *)
(* Time is counted in whole seconds.  The zero time.Time is ZeroTime; the  *)
(* process clock starts at StartTime, far after it.                        *)
(***************************************************************************)
EXTENDS Integers, Sequences, FiniteSets, TLC

\* ------------------------------------------------------------------ bounds
MaxTicks == 3
StartTime == 1000

\* The callers that share the client; rateLimitMutex holds NoProc when free.
Procs == {"A", "B"}
NoProc == "-"

\* ------------------------------------------------------- program constants
ZeroTime == 0
DefaultRealtimeRPM == 60
MinuteSeconds == 60
TokenSafetyMargin == 300
DefaultRetryAfter == 60
StatusOK == 200
StatusCreated == 201
StatusUnauthorized == 401
StatusTooManyRequests == 429
NoSite == 0

FleetAPIBaseURL == "https://fleet-api.prd.na.vn.cloud.tesla.com"
TokenURL == "https://fleet-auth.prd.vn.cloud.tesla.com/oauth2/v3/token"

\* ------------------------------------------------------------ input sets
\* Values a caller passes to SetRateLimit (any int is accepted).
RateLimits == {60, 30, 45, 120, 0, -1}
\* Endpoints the mapping layer passes to doFleetRequest.
Endpoints == {"/api/1/products"}
\* Tokens the caller supplies at construction.
InitialAccessToken == "at0"
InitialRefreshToken == "rt0"
ClientID == "cid"
\* Tokens a caller passes to SetRefreshToken.
SetTokens == {"rtS"}

\* What the token endpoint answers: a failure of the transport (of
\* httpClient.Do or of reading the body, with its error), a non-200 status,
\* a 200 with a body that is not JSON, or a 200 with a JSON object whose
\* absent fields decode to Go zero values ("" and 0).
TokenJSONBodies ==
    { [json |-> TRUE, access_token |-> a, refresh_token |-> r, expires_in |-> e] :
        a \in {"at1"}, r \in {"", "rt1", "rt2"}, e \in {301, 302} }
    \cup { [json |-> TRUE, access_token |-> "", refresh_token |-> "", expires_in |-> 0] }
BadJSONBody == [json |-> FALSE]
TokenResponses ==
    { [kind |-> "transport_error", err |-> "connection refused"] }
    \cup { [kind |-> "response", status |-> 400, body |-> BadJSONBody] }
    \cup { [kind |-> "response", status |-> StatusOK, body |-> b] :
             b \in TokenJSONBodies \cup {BadJSONBody} }

\* The token endpoint in full: each failure of the transport, statuses on
\* either side of 200 with a well-formed body, and 200 with bodies that differ
\* from a usual one in one field (a field that is absent decodes to "" or 0).
NetErrors == {"connection refused", "timeout", "unexpected EOF"}
UsualTokenBody ==
    [json |-> TRUE, access_token |-> "at1", refresh_token |-> "",
     expires_in |-> 3600]
RefreshBodies ==
    {UsualTokenBody}
    \cup {[UsualTokenBody EXCEPT !.access_token = a] : a \in {"at2", ""}}
    \cup {[UsualTokenBody EXCEPT !.refresh_token = "rt1"]}
    \cup {[UsualTokenBody EXCEPT !.expires_in = e] : e \in {0, 1, 300, 301}}
RefreshResponses ==
    {[kind |-> "transport_error", err |-> e] : e \in NetErrors}
    \cup {[kind |-> "response", status |-> st, body |-> UsualTokenBody] :
            st \in {StatusCreated, 204, 400, StatusUnauthorized, 500}}
    \cup {[kind |-> "response", status |-> StatusOK, body |-> b] :
            b \in RefreshBodies \cup {BadJSONBody}}
\* The Fleet API answering the requests that follow a refresh.
RefreshDataResponses ==
    {[kind |-> "transport_error", err |-> e] : e \in NetErrors}
    \cup {[kind |-> "response", status |-> st, body |-> "body1",
            retry_after |-> << >>] : st \in {StatusOK, StatusUnauthorized}}

\* Retry-After header values, as the characters of the header ("" = absent).
RetryHeaders ==
    { <<>>, <<"3", "0">>, <<"7">>, <<"x">>, <<"-", "5">>, <<"3", "x">>, <<" ", "7">> }
DataBodies == {"body1", "body2"}
\* What the Fleet API answers to a data request.
DataResponses ==
    { [kind |-> "transport_error", err |-> "connection refused"] }
    \cup { [kind |-> "response", status |-> s, body |-> b, retry_after |-> <<>>] :
             s \in {200, 201, 204, 401, 403, 500}, b \in DataBodies }
    \cup { [kind |-> "response", status |-> 429, body |-> "body1", retry_after |-> h] :
             h \in RetryHeaders }

NoMsg == [kind |-> "none"]
NoResult == [kind |-> "none"]
\* var tokenResp struct{...}: every field has its zero value.
NoTokenResp ==
    [json |-> FALSE, access_token |-> "", refresh_token |-> "", expires_in |-> 0]
NoCli == [pc |-> "off"]
NoCodec == [pc |-> "off"]
NoToken == "-"

\* ----------------------------------------------------------------- state
VARIABLES
    now,              \* the wall clock, in seconds
    accessToken,      \* Client.accessToken
    refreshToken,     \* Client.refreshToken
    tokenExpiry,      \* Client.tokenExpiry
    rpm,              \* Client.rateLimitConfig.RealtimeDataRPM
    rateLimitMutex,   \* Client.rateLimitMutex: its holder, or NoProc
    lastRequestTime,  \* Client.lastRequestTime
    pc,               \* each caller's position
    op,               \* the public entry point each caller is in
    endpoint,         \* doFleetRequest's endpoint argument
    wake,             \* the instant a sleeping caller may resume
    expired,          \* what IsTokenExpired returned in this call
    refreshSent,      \* token requests this call has sent
    dataSent,         \* data requests this call has sent
    net,              \* the HTTP exchange in flight for each caller
    tokenResp,        \* RefreshToken's decoded tokenResp
    refreshErr,       \* what RefreshToken returned to this call
    result,           \* what the call returned
    selectedSiteID,   \* Client.selectedSiteID
    api,              \* the endpoint method each caller is in, with its arguments
    apiResult,        \* what the endpoint method returned
    errFuncCalls,     \* the calls of Client.errFunc made during this call
    cli,              \* the command-line program's run
    codec,            \* the value a type's JSON codec is applied to
    req,              \* doFleetRequest's req: the data request this call built
    issued,           \* the access token this call's refresh was given
    stamped,          \* how often this call has assigned lastRequestTime
    rejected          \* the access token the Fleet API last answered 401 to,
                      \* while it is still the client's

vars == << now, accessToken, refreshToken, tokenExpiry, rpm, rateLimitMutex,
           lastRequestTime, pc, op, endpoint, wake, expired, refreshSent,
           dataSent, net, tokenResp, refreshErr, result, selectedSiteID, api,
           apiResult, errFuncCalls, cli, codec, req, issued, stamped,
           rejected >>

clientVars == << accessToken, refreshToken, tokenExpiry, rpm, rateLimitMutex,
                 lastRequestTime >>
localVars == << pc, op, endpoint, wake, expired, refreshSent, dataSent, net,
                tokenResp, refreshErr, result >>
apiVars == << selectedSiteID, api, apiResult, errFuncCalls >>
outerVars == << apiVars, cli, codec >>
traceVars == << req, issued, stamped, rejected >>

\* ------------------------------------------------------------- helpers
\* Go's integer division truncates toward zero.
GoDiv(a, b) ==
    LET q == (IF a < 0 THEN -a ELSE a) \div (IF b < 0 THEN -b ELSE b)
    IN  IF (a < 0) = (b < 0) THEN q ELSE -q

\* time.Time.After
After(t, u) == t > u

\* interval := time.Duration(60/c.rateLimitConfig.RealtimeDataRPM) * time.Second
Interval(r) == GoDiv(MinuteSeconds, r)

\* Mutant: an expiry that was never set counts as not expired.
IsTokenExpiredUnlessZero(t, expiry) ==
    expiry # ZeroTime /\ After(t + TokenSafetyMargin, expiry)

\* Mutant: the safety margin compared with >= instead of After.
IsTokenExpiredInclusive(t, expiry) == t + TokenSafetyMargin >= expiry

\* return time.Now().Add(5 * time.Minute).After(c.tokenExpiry)
IsTokenExpired(t, expiry) == After(t + TokenSafetyMargin, expiry)

\* fmt.Sscanf(retryHeader, "%d", &retryAfter): leading spaces are skipped, an
\* optional sign and then the longest run of decimal digits is read; with no
\* digit the scan fails and the destination keeps its value.
DigitChars == <<"0", "1", "2", "3", "4", "5", "6", "7", "8", "9">>
IsDigit(c) == \E i \in 1..Len(DigitChars) : DigitChars[i] = c
DigitVal(c) == (CHOOSE i \in 1..Len(DigitChars) : DigitChars[i] = c) - 1

RECURSIVE SkipSpace(_)
SkipSpace(s) == IF s # <<>> /\ Head(s) = " " THEN SkipSpace(Tail(s)) ELSE s

RECURSIVE ScanNumber(_, _, _)
ScanNumber(s, acc, n) ==
    IF s # <<>> /\ IsDigit(Head(s))
    THEN ScanNumber(Tail(s), acc * 10 + DigitVal(Head(s)), n + 1)
    ELSE << n, acc >>

SscanfInt(h, old) ==
    LET s == SkipSpace(h)
        signed == s # <<>> /\ Head(s) \in {"+", "-"}
        neg == s # <<>> /\ Head(s) = "-"
        r == ScanNumber(IF signed THEN Tail(s) ELSE s, 0, 0)
    IN  IF r[1] = 0 THEN old ELSE IF neg THEN -r[2] ELSE r[2]

\* Mutant: a failed scan leaves 0, not the default, in retryAfter.
RetryAfterZeroOnFailure(h) ==
    IF h # <<>> THEN SscanfInt(h, 0) ELSE DefaultRetryAfter

\* retryAfter := 60; if the header is not "" it is scanned into retryAfter.
RetryAfterOf(h) ==
    IF h # <<>> THEN SscanfInt(h, DefaultRetryAfter) ELSE DefaultRetryAfter

\* Mutant: a 429 sends the call through the limiter for another attempt.
AfterStatusThroughLimiter(status) ==
    IF status = StatusTooManyRequests THEN "rl_lock" ELSE "done"

\* Mutant: a 401 sends the call back to the token check for another attempt.
AfterStatusRetrying(status) ==
    IF status = StatusUnauthorized THEN "check" ELSE "done"

\* Where doFleetRequest goes after the status switch: every case returns.
AfterStatus(status) == "done"

\* Mutant: every 2xx status counts as success.
IsSuccessAny2xx(status) == status \in 200..299

\* case 200, 201: return body, nil
IsSuccess(status) == status \in {StatusOK, StatusCreated}

\* Mutant: ExpiresAt taken from the clock, as RefreshToken's error does.
AccessTokenExpiredAtNow(expiry, t) ==
    [kind |-> "TokenExpiredError", token |-> "access", expiresAt |-> t]

\* case 401: TokenExpiredError{Token: "access", ExpiresAt: c.tokenExpiry}
AccessTokenExpired(expiry, t) ==
    [kind |-> "TokenExpiredError", token |-> "access", expiresAt |-> expiry]

\* Mutant: a 401 marks the stored token as expired.
ExpiryResetOnUnauthorized(status, expiry) ==
    IF status = StatusUnauthorized THEN ZeroTime ELSE expiry

\* The status switch reads c.tokenExpiry (case 401) and assigns no field of
\* the client: the expiry after it is the expiry before it.
ExpiryAfterStatus(status, expiry) == expiry

\* The switch on resp.StatusCode at the end of doFleetRequest.
Classify(resp, url, ep, expiry, limit, t) ==
    IF IsSuccess(resp.status)
    THEN [kind |-> "ok", body |-> resp.body]
    ELSE IF resp.status = StatusUnauthorized
    THEN AccessTokenExpired(expiry, t)
    ELSE IF resp.status = StatusTooManyRequests
    THEN [kind |-> "RateLimitError", endpoint |-> ep, limit |-> limit,
          remaining |-> 0, resetTime |-> t + RetryAfterOf(resp.retry_after),
          retryAfter |-> RetryAfterOf(resp.retry_after)]
    ELSE [kind |-> "ApiError", url |-> url, statusCode |-> resp.status,
          body |-> resp.body]

\* Mutant: a failure of the transport is reported as an ApiError.
TransportErrorWrapped(resp) ==
    [kind |-> "ApiError", url |-> << >>, statusCode |-> 0, body |-> resp.err]

\* resp, err := c.httpClient.Do(req) and body, err := io.ReadAll(resp.Body):
\* if err != nil the function returns err, the value the transport made.
TransportError(resp) == [kind |-> "TransportError", err |-> resp.err]

\* Mutant: every 2xx status of the token endpoint counts as a success.
RefreshOutcomeAny2xx(resp, t) ==
    IF resp.kind = "transport_error" THEN TransportError(resp)
    ELSE IF resp.status \notin 200..299
    THEN [kind |-> "TokenExpiredError", token |-> "refresh", expiresAt |-> t]
    ELSE IF ~resp.body.json THEN [kind |-> "DecodeError"]
    ELSE [kind |-> "nil"]

\* RefreshToken's outcome once httpClient.Do has returned: the transport's
\* error, TokenExpiredError for a status other than 200, json.Unmarshal's error
\* for a body that is not JSON, and otherwise nil (the tokens are then stored).
RefreshOutcome(resp, t) ==
    IF resp.kind = "transport_error" THEN TransportError(resp)
    ELSE IF resp.status # StatusOK
    THEN [kind |-> "TokenExpiredError", token |-> "refresh", expiresAt |-> t]
    ELSE IF ~resp.body.json THEN [kind |-> "DecodeError"]
    ELSE [kind |-> "nil"]

\* Mutant: RefreshToken goes on to its assignments whatever went wrong.
RefreshReturnsNever(err) == FALSE

\* RefreshToken's 'if err != nil { return err }' and its return of
\* TokenExpiredError: with an error it returns before any assignment.
RefreshReturns(err) == err.kind # "nil"

\* json.Unmarshal(body, &tokenResp): the fields of a body that decodes.
DecodedToken(resp) ==
    IF resp.kind = "response" /\ resp.body.json THEN resp.body ELSE NoTokenResp

\* Mutant: the refresh error is dropped and the data request goes out.
AfterRefreshIgnoringError(err) == "send"

\* err := c.RefreshToken(); if err != nil { return nil, err }
AfterRefresh(err) == IF err.kind # "nil" THEN "done" ELSE "send"

\* Mutant: rateLimitWait runs without taking the mutex.
CanLockUnguarded(holder) == TRUE

\* c.rateLimitMutex.Lock() proceeds only while nobody holds the mutex.
CanLock(holder) == holder = NoProc

\* The token the Fleet API has rejected stays the one to watch while the
\* client still holds it.
StillRejected(token, stored) == IF token = stored THEN token ELSE NoToken

\* Mutant: the access token of the response is dropped.
StoredAccessTokenKept(old, received) == old

\* c.accessToken = tokenResp.AccessToken
StoredAccessToken(old, received) == received

\* Mutant: the header is the token alone.
AuthorizationBare(token) == << token >>

\* req.Header.Set("Authorization", "Bearer "+c.accessToken)
Authorization(token) == << "Bearer ", token >>

\* Mutant: rateLimitWait returns without releasing the mutex.
UnlockForgotten(holder) == holder

\* defer c.rateLimitMutex.Unlock()
Unlock(holder) == NoProc

\* Mutant: the stored refresh token is overwritten unconditionally.
StoredRefreshTokenAlways(old, received) == received

\* if tokenResp.RefreshToken != "" { c.refreshToken = tokenResp.RefreshToken }
StoredRefreshToken(old, received) == IF received # "" THEN received ELSE old

\* ------------------------------------------------- the endpoint methods
\* An endpoint method with its arguments.  A date and a site name are kept as
\* the sequence of the pieces of their text, the empty text being << >>.
Call(n) ==
    [name |-> n, kind |-> "", startDate |-> << >>, endDate |-> << >>,
     period |-> "", timeZone |-> "", percent |-> 0, siteName |-> << >>,
     enabled |-> FALSE, via |-> n]
NoCall == Call("none")

\* The arguments the callers pass.
SiteIDs == {NoSite, 7}
Periods == {"day", "week", "month", "year", "fortnight"}
Kinds == {"energy", "backup", "charge"}
TimeZones == {"", "UTC"}
Percents == {-1, 0, 5, 100, 101}
SiteNames == {<< >>, << "Home" >>}
StartDate == << "2024-01-01" >>
EndDate == << "2024-01-31" >>

\* The methods that begin with ensureSiteSelected.
SiteScopedOps ==
    {"GetStatus", "GetSiteInfo", "GetMetersAggregates", "GetSOE",
     "GetGridStatus", "GetTelemetryHistory", "GetEnergyHistory",
     "GetBackupHistory", "GetCalendarHistory", "SetBackupReserve",
     "SetSiteName", "SetStormMode"}
\* The methods that validate a period argument.
PeriodOps == {"GetEnergyHistory", "GetBackupHistory", "GetCalendarHistory"}
\* The control commands: the methods that go through apiPostJson.
ControlOps == {"SetBackupReserve", "SetSiteName", "SetStormMode"}
\* The convenience methods.
WrapperOps ==
    {"GetRecentTelemetryData", "GetWeeklyEnergyData", "GetMonthlyEnergyData",
     "GetDailyEnergyData", "EnableStormWatch", "DisableStormWatch",
     "SetMinimumBackupReserve", "SetMaximumBackupReserve"}
\* The methods with no Fleet API equivalent, each with its Reason.
UnsupportedReason ==
    [GetOperation |->
       "Fleet API does not provide detailed operation data available from local gateway",
     GetSystemStatus |->
       "Fleet API does not provide detailed system diagnostics available from local gateway",
     GetSitemaster |->
       "Fleet API does not expose local gateway clustering information",
     GetNetworks |-> "Fleet API does not expose local network configuration",
     GetGridFaults |->
       "Fleet API does not provide detailed grid fault information available from local gateway",
     GetMeters |->
       "Fleet API does not provide individual meter details - use GetMetersAggregates() instead"]
UnsupportedOps == DOMAIN UnsupportedReason

HistoryCalls ==
    {[Call("GetTelemetryHistory") EXCEPT !.startDate = StartDate,
         !.endDate = EndDate, !.timeZone = z] : z \in TimeZones}
    \cup {[Call(n) EXCEPT !.startDate = StartDate, !.endDate = EndDate,
              !.period = per, !.timeZone = z] :
             n \in {"GetEnergyHistory", "GetBackupHistory"}, per \in Periods,
             z \in TimeZones}
    \cup {[Call("GetCalendarHistory") EXCEPT !.kind = k,
              !.startDate = StartDate, !.endDate = EndDate, !.period = per,
              !.timeZone = z] : k \in Kinds, per \in Periods, z \in TimeZones}
ControlCalls ==
    {[Call("SetBackupReserve") EXCEPT !.percent = n] : n \in Percents}
    \cup {[Call("SetSiteName") EXCEPT !.siteName = s] : s \in SiteNames}
    \cup {[Call("SetStormMode") EXCEPT !.enabled = b] : b \in BOOLEAN}
ApiCalls ==
    {Call(n) : n \in {"GetProducts", "GetEnergyProducts", "GetStatus",
                      "GetSiteInfo", "GetMetersAggregates", "GetSOE",
                      "GetGridStatus"} \cup UnsupportedOps \cup WrapperOps}
    \cup HistoryCalls \cup ControlCalls

\* time.Now().Format("2006-01-02") and time.Now().AddDate(y, m, d).Format(...)
DateOf(t, y, m, d) == << "date", t, y, m, d >>

\* A convenience method is the call it makes, made in its name (via); any
\* other method is itself.
Resolve(c, t) ==
    CASE c.name = "GetRecentTelemetryData" ->
           [Call("GetTelemetryHistory") EXCEPT !.via = c.name,
              !.startDate = DateOf(t, 0, 0, -7), !.endDate = DateOf(t, 0, 0, 0)]
      [] c.name = "GetWeeklyEnergyData" ->
           [Call("GetEnergyHistory") EXCEPT !.via = c.name, !.period = "week",
              !.startDate = DateOf(t, 0, -1, 0), !.endDate = DateOf(t, 0, 0, 0)]
      [] c.name = "GetMonthlyEnergyData" ->
           [Call("GetEnergyHistory") EXCEPT !.via = c.name, !.period = "month",
              !.startDate = DateOf(t, -1, 0, 0), !.endDate = DateOf(t, 0, 0, 0)]
      [] c.name = "GetDailyEnergyData" ->
           [Call("GetEnergyHistory") EXCEPT !.via = c.name, !.period = "day",
              !.startDate = DateOf(t, 0, 0, -7), !.endDate = DateOf(t, 0, 0, 0)]
      [] c.name = "EnableStormWatch" ->
           [Call("SetStormMode") EXCEPT !.via = c.name, !.enabled = TRUE]
      [] c.name = "DisableStormWatch" ->
           [Call("SetStormMode") EXCEPT !.via = c.name, !.enabled = FALSE]
      [] c.name = "SetMinimumBackupReserve" ->
           [Call("SetBackupReserve") EXCEPT !.via = c.name,
              !.percent = 5]
      [] c.name = "SetMaximumBackupReserve" ->
           [Call("SetBackupReserve") EXCEPT !.via = c.name,
              !.percent = 100]
      [] OTHER -> c

\* An error made by fmt.Errorf.
Errorf(msg) == [kind |-> "error", msg |-> msg]

\* Mutant: the site check accepts an unselected site.
EnsureSiteSelectedNever(site) == NoResult

\* ensureSiteSelected
EnsureSiteSelected(site) ==
    IF site = NoSite
    THEN Errorf(<< "no energy site selected - call SelectEnergySite() first" >>)
    ELSE NoResult

ValidKinds == {"energy", "backup"}
ValidPeriods == {"day", "week", "month", "year"}

\* if !validKinds[kind] { return nil, fmt.Errorf(...) }
ValidateKind(kind) ==
    IF kind \notin ValidKinds
    THEN Errorf(<< "invalid kind for calendar history: ", kind,
                   " (supported: energy, backup)" >>)
    ELSE NoResult

\* Mutant: the period is not validated.
ValidatePeriodLax(name, period) == NoResult

\* if !validPeriods[period] { return nil, fmt.Errorf(...) }
ValidatePeriod(name, period) ==
    IF period \notin ValidPeriods
    THEN Errorf(<< "invalid period for ", name, ": ", period,
                   " (supported: day, week, month, year)" >>)
    ELSE NoResult

\* Mutant: the upper end of the range is rejected.
ValidatePercentExclusive(percent) ==
    IF percent < 0 \/ percent >= 100
    THEN Errorf(<< "backup reserve percent must be between 0 and 100, got ",
                   percent >>)
    ELSE NoResult

\* if percent < 0 || percent > 100 { return fmt.Errorf(...) }
ValidatePercent(percent) ==
    IF percent < 0 \/ percent > 100
    THEN Errorf(<< "backup reserve percent must be between 0 and 100, got ",
                   percent >>)
    ELSE NoResult

\* if name == "" { return fmt.Errorf("site name cannot be empty") }
ValidateSiteName(name) ==
    IF name = << >> THEN Errorf(<< "site name cannot be empty" >>)
    ELSE NoResult

\* Mutant: the stub's error carries no reason.
UnsupportedWithoutReason(name) ==
    [kind |-> "UnsupportedError", operation |-> name, reason |-> ""]

\* return nil, UnsupportedError{Operation: ..., Reason: ...}
Unsupported(name) ==
    [kind |-> "UnsupportedError", operation |-> name,
     reason |-> UnsupportedReason[name]]

\* What a method returns before it reaches apiGetJson or apiPostJson, or
\* NoResult when it reaches it: the checks in the order the code makes them.
Validate(c, site) ==
    IF c.name \in UnsupportedOps THEN Unsupported(c.name)
    ELSE IF c.name \in SiteScopedOps
            /\ EnsureSiteSelected(site).kind # "none"
    THEN EnsureSiteSelected(site)
    ELSE IF c.name = "GetCalendarHistory"
            /\ ValidateKind(c.kind).kind # "none"
    THEN ValidateKind(c.kind)
    ELSE IF c.name \in PeriodOps
            /\ ValidatePeriod(c.name, c.period).kind # "none"
    THEN ValidatePeriod(c.name, c.period)
    ELSE IF c.name = "SetBackupReserve"
            /\ ValidatePercent(c.percent).kind # "none"
    THEN ValidatePercent(c.percent)
    ELSE IF c.name = "SetSiteName"
            /\ ValidateSiteName(c.siteName).kind # "none"
    THEN ValidateSiteName(c.siteName)
    ELSE NoResult

\* params.Set for each parameter, time_zone only when one is given.
HistoryParams(kind, c) ==
    {<< "kind", kind >>, << "start_date", c.startDate >>,
     << "end_date", c.endDate >>}
    \cup (IF c.name \in PeriodOps THEN {<< "period", c.period >>} ELSE {})
    \cup (IF c.timeZone # "" THEN {<< "time_zone", c.timeZone >>} ELSE {})

\* fmt.Sprintf("/api/1/energy_sites/%d/...", c.selectedSiteID)
SitePath(site, path) == << "/api/1/energy_sites/", site, path >>

\* The method, endpoint and payload a call hands to doFleetRequest.
RequestOf(c, site) ==
    CASE c.name \in {"GetProducts", "GetEnergyProducts"} ->
           [method |-> "GET", endpoint |-> << "/api/1/products" >>,
            payload |-> << >>]
      [] c.name \in {"GetStatus", "GetMetersAggregates", "GetSOE",
                     "GetGridStatus"} ->
           [method |-> "GET", endpoint |-> SitePath(site, "/live_status"),
            payload |-> << >>]
      [] c.name = "GetSiteInfo" ->
           [method |-> "GET", endpoint |-> SitePath(site, "/site_info"),
            payload |-> << >>]
      [] c.name = "GetTelemetryHistory" ->
           [method |-> "GET",
            endpoint |-> SitePath(site, "/telemetry_history") \o
                         << "?", HistoryParams("charge", c) >>,
            payload |-> << >>]
      [] c.name = "GetEnergyHistory" ->
           [method |-> "GET",
            endpoint |-> SitePath(site, "/calendar_history") \o
                         << "?", HistoryParams("energy", c) >>,
            payload |-> << >>]
      [] c.name = "GetBackupHistory" ->
           [method |-> "GET",
            endpoint |-> SitePath(site, "/calendar_history") \o
                         << "?", HistoryParams("backup", c) >>,
            payload |-> << >>]
      [] c.name = "GetCalendarHistory" ->
           [method |-> "GET",
            endpoint |-> SitePath(site, "/calendar_history") \o
                         << "?", HistoryParams(c.kind, c) >>,
            payload |-> << >>]
      [] c.name = "SetBackupReserve" ->
           [method |-> "POST", endpoint |-> SitePath(site, "/backup"),
            payload |-> << "backup_reserve_percent", c.percent >>]
      [] c.name = "SetSiteName" ->
           [method |-> "POST", endpoint |-> SitePath(site, "/site_name"),
            payload |-> << "site_name", c.siteName >>]
      [] c.name = "SetStormMode" ->
           [method |-> "POST", endpoint |-> SitePath(site, "/storm_mode"),
            payload |-> << "enabled", c.enabled >>]

\* ----------------------------------------------- the Fleet API's answers
\* A JSON body: its "response" member is an array of products, an object of
\* live-status fields, or missing.
JSONBody(shape, products, live) ==
    [json |-> TRUE, shape |-> shape, products |-> products, live |-> live]
Product(id, type) == [energy_site_id |-> id, resource_type |-> type]
ProductLists ==
    {<< >>,
     << Product(1, "solar"), Product(2, "vehicle"), Product(3, "battery"),
        Product(4, "vehicle") >>,
     << Product(1, "Solar"), Product(2, "battery "), Product(3, "battery"),
        Product(4, "solar") >>,
     << Product(1, "wall_connector") >>}
PowerFields == {"solar_power", "battery_power", "grid_power", "load_power"}
PowerValue ==
    [solar_power |-> 3200, battery_power |-> -1500, grid_power |-> 0,
     load_power |-> 1700]
LiveObjects ==
    {[f \in S |-> PowerValue[f]] : S \in SUBSET PowerFields}
    \cup {[f \in {"percentage_charged"} |-> 55]}
EmptyBody == JSONBody("none", << >>, << >>)
ProductBodies == {JSONBody("array", ps, << >>) : ps \in ProductLists}
LiveBodies == {JSONBody("object", << >>, l) : l \in LiveObjects}

\* The answers the Fleet API gives to a request for one endpoint: success
\* with a body that is not JSON, with an empty object, with the endpoint's own
\* bodies and with one body of another endpoint; and the failures.
OwnBodies(ep) ==
    IF Len(ep) = 1 THEN ProductBodies
    ELSE IF Len(ep) = 3 /\ ep[3] = "/live_status" THEN LiveBodies
    ELSE {}
ForeignBodies ==
    {JSONBody("array", << Product(1, "solar") >>, << >>),
     JSONBody("object", << >>, [f \in {"solar_power"} |-> 3200])}
ApiResponses(ep) ==
    [kind : {"response"}, status : {StatusOK, StatusCreated},
     body : {BadJSONBody, EmptyBody} \cup OwnBodies(ep) \cup ForeignBodies,
     retry_after : {<< >>}]
    \cup [kind : {"response"}, status : {StatusUnauthorized, 500},
          body : {BadJSONBody}, retry_after : {<< >>}]
    \cup [kind : {"response"}, status : {StatusTooManyRequests},
          body : {BadJSONBody}, retry_after : {<< >>, << "7" >>}]
    \cup {[kind |-> "transport_error", err |-> e] :
            e \in {"connection refused", "unexpected EOF"}}
ApiTokenResponses ==
    {[kind |-> "transport_error", err |-> "timeout"],
     [kind |-> "response", status |-> 400, body |-> BadJSONBody],
     [kind |-> "response", status |-> StatusOK,
      body |-> [json |-> TRUE, access_token |-> "at1",
                refresh_token |-> "rt1", expires_in |-> 3600]]}

\* The shape of the variable each method decodes into.
TargetOf(c) ==
    IF c.name \in {"GetProducts", "GetEnergyProducts"} THEN "ProductsResponse"
    ELSE IF c.name \in {"GetStatus", "GetMetersAggregates", "GetSOE",
                        "GetGridStatus"} THEN "LiveStatusResponse"
    ELSE IF c.name = "GetSiteInfo" THEN "SiteInfoResponse"
    ELSE IF c.name \in ControlOps THEN "map"
    ELSE "HistoryData"

\* Mutant: every JSON body decodes into every target.
DecodesAnyJSON(body, target) == body.json

\* json.Unmarshal succeeds: the body is JSON, and its "response" member is
\* not an object where the target has a slice nor an array where it has a
\* struct.  A map[string]interface{} takes any object.
Decodes(body, target) ==
    /\ body.json
    /\ target = "ProductsResponse" => body.shape # "object"
    /\ target \in {"LiveStatusResponse", "SiteInfoResponse", "HistoryData"}
         => body.shape # "array"

\* Mutant: products are matched whatever their case.
IsEnergyTypeFolded(type) == type \in {"solar", "battery", "Solar", "Battery"}

\* product.ResourceType == "solar" || product.ResourceType == "battery"
IsEnergyType(type) == type = "solar" \/ type = "battery"

\* The loop of GetEnergyProducts.
RECURSIVE FilterEnergyProducts(_)
FilterEnergyProducts(products) ==
    IF products = << >> THEN << >>
    ELSE IF IsEnergyType(Head(products).resource_type)
    THEN << Head(products) >> \o FilterEnergyProducts(Tail(products))
    ELSE FilterEnergyProducts(Tail(products))

\* Mutant: an absent field gives a zero-valued entry.
MeterEntryZeroFilled(live, field, key) ==
    IF field \in DOMAIN live
    THEN {<< key, [InstantPower |-> live[field]] >>}
    ELSE {<< key, [InstantPower |-> 0] >>}

\* if liveStatus.Response.X != nil { result[key] = MeterAggregatesData{...} }
MeterEntry(live, field, key) ==
    IF field \in DOMAIN live
    THEN {<< key, [InstantPower |-> live[field]] >>}
    ELSE {}

\* The map GetMetersAggregates builds, as its set of key-value pairs.
MetersAggregates(live) ==
    MeterEntry(live, "solar_power", "solar")
    \cup MeterEntry(live, "battery_power", "battery")
    \cup MeterEntry(live, "grid_power", "site")
    \cup MeterEntry(live, "load_power", "load")

\* What a method returns once its body has decoded.
MapResult(c, body, site) ==
    CASE c.name = "GetProducts" -> body.products
      [] c.name = "GetEnergyProducts" -> FilterEnergyProducts(body.products)
      [] c.name = "GetMetersAggregates" -> MetersAggregates(body.live)
      [] c.name = "GetSOE" ->
           IF "percentage_charged" \in DOMAIN body.live
           THEN << "Percentage", body.live["percentage_charged"] >>
           ELSE << "Percentage", 0 >>
      [] c.name = "GetStatus" -> << "Din", "fleet-api-", site >>
      [] c.name \in ControlOps -> << >>
      [] OTHER -> << "response", body.products, body.live >>

\* jsonError: the message and the error handed to errFunc.
JsonError(ep, data, err) ==
    [msg |-> << "Error unmarshalling Fleet API '", ep, "' response ", data >>,
     err |-> err]

\* ----------------------------------------------- the command-line program
\* Exit codes.
ExitOK == 0
ExitFlags == 1
ExitSetup == 2
ExitUsage == 3
ExitUnsupported == 4
ExitTokenExpired == 5
ExitRateLimit == 6
ExitApiError == 1

\* The method each command calls.
CliMethod ==
    [products |-> "GetEnergyProducts", status |-> "GetStatus",
     site_info |-> "GetSiteInfo", aggregates |-> "GetMetersAggregates",
     soe |-> "GetSOE", grid_status |-> "GetGridStatus",
     telemetry_history |-> "GetTelemetryHistory",
     energy_history |-> "GetEnergyHistory",
     backup_history |-> "GetBackupHistory",
     calendar_history |-> "GetCalendarHistory",
     set_backup_reserve |-> "SetBackupReserve",
     set_storm_mode |-> "SetStormMode", set_site_name |-> "SetSiteName",
     operation |-> "GetOperation", system_status |-> "GetSystemStatus",
     sitemaster |-> "GetSitemaster", networks |-> "GetNetworks",
     grid_faults |-> "GetGridFaults", meters |-> "GetMeters"]
\* The number of arguments each command insists on.
CliMinArgs(cmd) ==
    CASE cmd = "telemetry_history" -> 2
      [] cmd \in {"energy_history", "backup_history"} -> 3
      [] cmd = "calendar_history" -> 4
      [] cmd \in {"set_backup_reserve", "set_storm_mode", "set_site_name"} -> 1
      [] OTHER -> 0

\* What the user types: commands, with power_history as one the switch does
\* not know, and for each command some argument lists.  A number is typed as
\* the sequence of its characters.
CliCommands == DOMAIN CliMethod \cup {"power_history"}
CliArgs(cmd) ==
    CASE cmd = "set_backup_reserve" ->
           {<< >>, << << "5", "0" >> >>, << << "1", "0", "1" >> >>,
            << << "5", "%" >> >>}
      [] cmd = "set_storm_mode" -> {<< >>, << "true" >>, << "TRUE" >>, << "off" >>}
      [] cmd = "set_site_name" -> {<< >>, << "Home" >>, << "My", "Home" >>, << "" >>}
      [] cmd = "telemetry_history" ->
           {<< "2024-01-01" >>, << "2024-01-01", "2024-01-31" >>,
            << "2024-01-01", "2024-01-31", "UTC" >>}
      [] cmd \in {"energy_history", "backup_history"} ->
           {<< "2024-01-01", "2024-01-31" >>,
            << "2024-01-01", "2024-01-31", "day" >>,
            << "2024-01-01", "2024-01-31", "fortnight", "UTC" >>}
      [] cmd = "calendar_history" ->
           {<< "energy", "2024-01-01", "2024-01-31" >>,
            << "energy", "2024-01-01", "2024-01-31", "week" >>,
            << "charge", "2024-01-01", "2024-01-31", "week", "UTC" >>}
      [] OTHER -> {<< >>, << "solar" >>}
\* The values of SITE_ID in the environment, as character sequences.
CliEnvSiteIDs == {<< >>, << "7" >>, << "0" >>, << "7", "a" >>}

\* strconv.Atoi and strconv.ParseInt(s, 10, 64): an optional sign and then
\* digits only, at least one.
Atoi(s) ==
    LET signed == s # << >> /\ Head(s) \in {"+", "-"}
        digits == IF signed THEN Tail(s) ELSE s
        r == ScanNumber(digits, 0, 0)
    IN  IF digits = << >> \/ r[1] # Len(digits) THEN [ok |-> FALSE, n |-> 0]
        ELSE [ok |-> TRUE, n |-> IF Head(s) = "-" THEN -r[2] ELSE r[2]]

\* strings.ToLower, on the words the user types.
ToLower(s) ==
    CASE s \in {"TRUE", "True"} -> "true"
      [] s \in {"FALSE", "False"} -> "false"
      [] s = "OFF" -> "off"
      [] OTHER -> s

\* strings.Join(args, " "), as the sequence of the pieces of the result.
RECURSIVE JoinSpace(_)
JoinSpace(args) ==
    IF args = << >> THEN << >>
    ELSE (IF Head(args) = "" THEN << >> ELSE << Head(args) >>)
         \o (IF Len(args) > 1 THEN << " " >> \o JoinSpace(Tail(args))
             ELSE << >>)

\* args[i] when the user gave it, the empty string otherwise.
OptionalArg(args, i) == IF Len(args) >= i THEN args[i] ELSE ""

\* The call each case of the command switch makes.
CliCallOf(cmd, args) ==
    CASE cmd = "telemetry_history" ->
           [Call("GetTelemetryHistory") EXCEPT !.startDate = << args[1] >>,
              !.endDate = << args[2] >>, !.timeZone = OptionalArg(args, 3)]
      [] cmd \in {"energy_history", "backup_history"} ->
           [Call(CliMethod[cmd]) EXCEPT !.startDate = << args[1] >>,
              !.endDate = << args[2] >>, !.period = args[3],
              !.timeZone = OptionalArg(args, 4)]
      [] cmd = "calendar_history" ->
           [Call("GetCalendarHistory") EXCEPT !.kind = args[1],
              !.startDate = << args[2] >>, !.endDate = << args[3] >>,
              !.period = args[4], !.timeZone = OptionalArg(args, 5)]
      [] cmd = "set_backup_reserve" ->
           [Call("SetBackupReserve") EXCEPT !.percent = Atoi(args[1]).n]
      [] cmd = "set_storm_mode" ->
           [Call("SetStormMode") EXCEPT !.enabled = (ToLower(args[1]) = "true")]
      [] cmd = "set_site_name" ->
           [Call("SetSiteName") EXCEPT !.siteName = JoinSpace(args)]
      [] OTHER -> Call(CliMethod[cmd])

\* handleError: the exit code chosen by the type switch on the error.
HandleError(err) ==
    CASE err.kind = "UnsupportedError" -> ExitUnsupported
      [] err.kind = "TokenExpiredError" -> ExitTokenExpired
      [] err.kind = "RateLimitError" -> ExitRateLimit
      [] OTHER -> ExitApiError

\* The program before flags.Parse, and its exits.
CliStart ==
    [pc |-> "parse", optSiteID |-> NoSite, command |-> "", args |-> << >>,
     siteID |-> NoSite, exit |-> ExitOK, err |-> NoResult, usage |-> ""]
CliExit(code, usage, err) ==
    [cli EXCEPT !.pc = "exited", !.exit = code, !.usage = usage, !.err = err]

\* ------------------------------------------------------- the JSON codecs
\* A time.Duration is an int64 of nanoseconds; it is kept here as its sign,
\* its whole seconds and the nanoseconds left over, zero being DurationOf(0, 0).
NanosPerSecond == 1000000000
DurationValue(neg, sec, ns) ==
    [neg |-> neg /\ (sec # 0 \/ ns # 0), sec |-> sec, ns |-> ns]
DurationSeconds == {0, 1, 59, 60, 61, 3599, 3600, 5025, 86400, 360000}
DurationNanos ==
    {0, 1, 999, 1000, 1500, 50000, 999999, 1000000, 1050000, 123456789,
     670000000, 999999999}
Durations ==
    {DurationValue(neg, sec, ns) :
       neg \in BOOLEAN, sec \in DurationSeconds, ns \in DurationNanos}

\* fmtInt: the decimal digits of v.
RECURSIVE FmtInt(_)
FmtInt(v) ==
    IF v < 10 THEN << DigitChars[v + 1] >>
    ELSE FmtInt(v \div 10) \o << DigitChars[(v % 10) + 1] >>

\* The last prec decimal digits of v, zeros included.
RECURSIVE FracDigits(_, _)
FracDigits(v, prec) ==
    IF prec = 0 THEN << >>
    ELSE FracDigits(v \div 10, prec - 1) \o << DigitChars[(v % 10) + 1] >>

RECURSIVE StripZeros(_)
StripZeros(s) ==
    IF s # << >> /\ s[Len(s)] = "0" THEN StripZeros(SubSeq(s, 1, Len(s) - 1))
    ELSE s

\* Mutant: the fraction is printed without its leading zeros.
FmtFracUnpadded(v, prec) ==
    IF StripZeros(FracDigits(v, prec)) = << >> THEN << >>
    ELSE << "." >> \o StripZeros(FmtInt(v))

\* fmtFrac: the fraction v/10^prec without its trailing zeros, and without
\* the point when nothing is left.
FmtFrac(v, prec) ==
    IF StripZeros(FracDigits(v, prec)) = << >> THEN << >>
    ELSE << "." >> \o StripZeros(FracDigits(v, prec))

\* time.Duration.String
DurationString(d) ==
    LET body ==
          IF d.sec = 0 /\ d.ns = 0 THEN << "0", "s" >>
          ELSE IF d.sec = 0 /\ d.ns < 1000
          THEN FmtInt(d.ns) \o << "n", "s" >>
          ELSE IF d.sec = 0 /\ d.ns < 1000000
          THEN FmtInt(d.ns \div 1000) \o FmtFrac(d.ns % 1000, 3)
               \o << "µ", "s" >>
          ELSE IF d.sec = 0
          THEN FmtInt(d.ns \div 1000000) \o FmtFrac(d.ns % 1000000, 6)
               \o << "m", "s" >>
          ELSE (IF d.sec >= 3600 THEN FmtInt(d.sec \div 3600) \o << "h" >>
                ELSE << >>)
               \o (IF d.sec >= 60
                   THEN FmtInt((d.sec \div 60) % 60) \o << "m" >>
                   ELSE << >>)
               \o FmtInt(d.sec % 60) \o FmtFrac(d.ns, 9) \o << "s" >>
    IN  (IF d.neg THEN << "-" >> ELSE << >>) \o body

\* json.Marshal of a string with nothing to escape: the string in quotes.
MarshalString(s) == << "\"" >> \o s \o << "\"" >>

\* Duration.MarshalJSON
DurationMarshalJSON(d) == MarshalString(DurationString(d))

\* strings.Replace(string(p), `"`, ``, -1)
RemoveQuotes(p) == SelectSeq(p, LAMBDA c : c # "\"")

\* unitMap of time.ParseDuration, each unit as whole seconds and nanoseconds.
UnitMap ==
    [u \in {<< "n", "s" >>, << "u", "s" >>, << "µ", "s" >>, << "μ", "s" >>,
            << "m", "s" >>, << "s" >>, << "m" >>, << "h" >>} |->
       CASE u = << "n", "s" >> -> [sec |-> 0, ns |-> 1]
         [] u \in {<< "u", "s" >>, << "µ", "s" >>, << "μ", "s" >>} ->
              [sec |-> 0, ns |-> 1000]
         [] u = << "m", "s" >> -> [sec |-> 0, ns |-> 1000000]
         [] u = << "s" >> -> [sec |-> 1, ns |-> 0]
         [] u = << "m" >> -> [sec |-> 60, ns |-> 0]
         [] u = << "h" >> -> [sec |-> 3600, ns |-> 0]]

RECURSIVE Pow10(_)
Pow10(k) == IF k = 0 THEN 1 ELSE 10 * Pow10(k - 1)

\* The length of the unit at the head of s: up to a point or a digit.
RECURSIVE UnitLen(_)
UnitLen(s) ==
    IF s = << >> \/ Head(s) = "." \/ IsDigit(Head(s)) THEN 0
    ELSE 1 + UnitLen(Tail(s))

\* The sum of two durations without sign.
AddDuration(a, b) ==
    [sec |-> a.sec + b.sec + (a.ns + b.ns) \div NanosPerSecond,
     ns |-> (a.ns + b.ns) % NanosPerSecond]

\* v units plus the fraction f/scale of a unit.
TermDuration(v, f, scale, unit) ==
    IF unit.sec > 0
    THEN AddDuration(
           [sec |-> v * unit.sec, ns |-> 0],
           [sec |-> (f * unit.sec) \div scale,
            ns |-> ((f * unit.sec) % scale) * (NanosPerSecond \div scale)])
    ELSE AddDuration(
           [sec |-> v \div (NanosPerSecond \div unit.ns),
            ns |-> (v % (NanosPerSecond \div unit.ns)) * unit.ns],
           [sec |-> 0,
            ns |-> IF scale <= unit.ns THEN f * (unit.ns \div scale)
                   ELSE f \div (scale \div unit.ns)])

\* The loop of time.ParseDuration: a number, with or without a fraction, then
\* a unit, as often as there is text.
RECURSIVE ParseTerms(_, _)
ParseTerms(s, acc) ==
    IF s = << >> THEN [ok |-> TRUE, value |-> acc]
    ELSE IF ~(Head(s) = "." \/ IsDigit(Head(s))) THEN [ok |-> FALSE]
    ELSE LET int == ScanNumber(s, 0, 0)
             s1 == SubSeq(s, int[1] + 1, Len(s))
             point == s1 # << >> /\ Head(s1) = "."
             frac == IF point THEN ScanNumber(Tail(s1), 0, 0) ELSE << 0, 0 >>
             s2 == IF point THEN SubSeq(s1, frac[1] + 2, Len(s1)) ELSE s1
             ulen == UnitLen(s2)
             unit == SubSeq(s2, 1, ulen)
         IN  IF int[1] = 0 /\ frac[1] = 0 THEN [ok |-> FALSE]
             ELSE IF ulen = 0 \/ unit \notin DOMAIN UnitMap THEN [ok |-> FALSE]
             ELSE ParseTerms(SubSeq(s2, ulen + 1, Len(s2)),
                             AddDuration(acc, TermDuration(int[2], frac[2],
                                            Pow10(frac[1]), UnitMap[unit])))

\* time.ParseDuration
ParseDuration(s) ==
    LET signed == s # << >> /\ Head(s) \in {"+", "-"}
        body == IF signed THEN Tail(s) ELSE s
        r == ParseTerms(body, [sec |-> 0, ns |-> 0])
    IN  IF body = << "0" >>
        THEN [ok |-> TRUE, value |-> DurationValue(FALSE, 0, 0)]
        ELSE IF body = << >> \/ ~r.ok THEN [ok |-> FALSE]
        ELSE [ok |-> TRUE,
              value |-> DurationValue(Head(s) = "-", r.value.sec, r.value.ns)]

\* Duration.UnmarshalJSON: the duration, or the error and v left alone.
DurationUnmarshalJSON(p) == ParseDuration(RemoveQuotes(p))

\* A timestamp: a civil date and time with the offset of its zone from UTC.
TimeStamp(y, mo, d, h, mi, s, off) ==
    [year |-> y, month |-> mo, day |-> d, hour |-> h, min |-> mi, sec |-> s,
     offset |-> off]
StampDates == {<< 2024, 1, 2 >>, << 2024, 2, 29 >>, << 2023, 12, 31 >>,
               << 2000, 3, 1 >>}
StampTimes == {<< 15, 4, 5 >>, << 0, 0, 0 >>, << 23, 59, 59 >>}
StampOffsets == {-25200, 19800, 0, -12600}
TimeStamps ==
    {TimeStamp(d[1], d[2], d[3], t[1], t[2], t[3], off) :
       d \in StampDates, t \in StampTimes, off \in StampOffsets}

\* The texts of a timestamp: "2024-01-02 15:04:05 -0700" as the status call
\* gives it, and "2024-01-02T15:04:05-07:00" as ISO 8601 has it.
Abs(n) == IF n < 0 THEN -n ELSE n
OffsetSign(off) == IF off < 0 THEN << "-" >> ELSE << "+" >>
NonIsoText(t) ==
    FracDigits(t.year, 4) \o << "-" >> \o FracDigits(t.month, 2) \o << "-" >>
    \o FracDigits(t.day, 2) \o << " " >> \o FracDigits(t.hour, 2) \o << ":" >>
    \o FracDigits(t.min, 2) \o << ":" >> \o FracDigits(t.sec, 2) \o << " " >>
    \o OffsetSign(t.offset) \o FracDigits(Abs(t.offset) \div 3600, 2)
    \o FracDigits((Abs(t.offset) % 3600) \div 60, 2)
IsoText(t) ==
    FracDigits(t.year, 4) \o << "-" >> \o FracDigits(t.month, 2) \o << "-" >>
    \o FracDigits(t.day, 2) \o << "T" >> \o FracDigits(t.hour, 2) \o << ":" >>
    \o FracDigits(t.min, 2) \o << ":" >> \o FracDigits(t.sec, 2)
    \o OffsetSign(t.offset) \o FracDigits(Abs(t.offset) \div 3600, 2)
    \o << ":" >> \o FracDigits((Abs(t.offset) % 3600) \div 60, 2)

\* The layouts, as the sequences of their elements.
NonIsoTimeFormat ==
    << "2006", "-", "01", "-", "02", " ", "15", ":", "04", ":", "05", " ",
       "-0700" >>
RFC3339 ==
    << "2006", "-", "01", "-", "02", "T", "15", ":", "04", ":", "05",
       "Z07:00" >>

\* The field a layout element stands for, and its number of digits.
LayoutField ==
    [e \in {"2006", "01", "02", "15", "04", "05"} |->
       CASE e = "2006" -> << "year", 4 >>
         [] e = "01" -> << "month", 2 >>
         [] e = "02" -> << "day", 2 >>
         [] e = "15" -> << "hour", 2 >>
         [] e = "04" -> << "min", 2 >>
         [] e = "05" -> << "sec", 2 >>]

\* The number written by the first n characters of s, or -1 when they are
\* not n digits.
Digits(s, n) ==
    IF Len(s) >= n /\ ScanNumber(SubSeq(s, 1, n), 0, 0)[1] = n
    THEN ScanNumber(SubSeq(s, 1, n), 0, 0)[2]
    ELSE -1

\* The offset from UTC in seconds of a zone written as sign, hours, minutes.
ZoneOffset(sign, hh, mm) ==
    IF sign = "-" THEN -(hh * 3600 + mm * 60) ELSE hh * 3600 + mm * 60

\* time.Parse, element by element of the layout: a field element reads its
\* digits, a zone element its sign, hours and minutes (or Z), and anything
\* else has to be in the text as it is in the layout.
RECURSIVE ParseLayout(_, _, _)
ParseLayout(layout, s, t) ==
    IF layout = << >>
    THEN IF s = << >> THEN [ok |-> TRUE, fields |-> t] ELSE [ok |-> FALSE]
    ELSE IF Head(layout) \in DOMAIN LayoutField
    THEN LET f == LayoutField[Head(layout)]
         IN  IF Digits(s, f[2]) < 0 THEN [ok |-> FALSE]
             ELSE ParseLayout(Tail(layout), SubSeq(s, f[2] + 1, Len(s)),
                              [t EXCEPT ![f[1]] = Digits(s, f[2])])
    ELSE IF Head(layout) = "-0700"
    THEN IF Len(s) < 5 \/ s[1] \notin {"+", "-"}
            \/ Digits(SubSeq(s, 2, 3), 2) < 0 \/ Digits(SubSeq(s, 4, 5), 2) < 0
         THEN [ok |-> FALSE]
         ELSE ParseLayout(Tail(layout), SubSeq(s, 6, Len(s)),
                [t EXCEPT !.offset =
                   ZoneOffset(s[1], Digits(SubSeq(s, 2, 3), 2),
                              Digits(SubSeq(s, 4, 5), 2))])
    ELSE IF Head(layout) = "Z07:00"
    THEN IF s # << >> /\ s[1] = "Z"
         THEN ParseLayout(Tail(layout), Tail(s), [t EXCEPT !.offset = 0])
         ELSE IF Len(s) < 6 \/ s[1] \notin {"+", "-"} \/ s[4] # ":"
                 \/ Digits(SubSeq(s, 2, 3), 2) < 0
                 \/ Digits(SubSeq(s, 5, 6), 2) < 0
         THEN [ok |-> FALSE]
         ELSE ParseLayout(Tail(layout), SubSeq(s, 7, Len(s)),
                [t EXCEPT !.offset =
                   ZoneOffset(s[1], Digits(SubSeq(s, 2, 3), 2),
                              Digits(SubSeq(s, 5, 6), 2))])
    ELSE IF s # << >> /\ Head(s) = Head(layout)
    THEN ParseLayout(Tail(layout), Tail(s), t)
    ELSE [ok |-> FALSE]

\* The calendar.
IsLeap(y) == y % 4 = 0 /\ (y % 100 # 0 \/ y % 400 = 0)
DaysIn(mo, y) ==
    IF mo = 2 THEN (IF IsLeap(y) THEN 29 ELSE 28)
    ELSE IF mo \in {4, 6, 9, 11} THEN 30 ELSE 31
DaysBefore == << 0, 31, 59, 90, 120, 151, 181, 212, 243, 273, 304, 334 >>
LeapsBefore(y) == (y - 1) \div 4 - (y - 1) \div 100 + (y - 1) \div 400
DaysSinceEpoch(y, mo, d) ==
    365 * (y - 1970) + LeapsBefore(y) - LeapsBefore(1970) + DaysBefore[mo]
    + (IF mo > 2 /\ IsLeap(y) THEN 1 ELSE 0) + d - 1

\* The instant of a parsed timestamp, in seconds since 1970-01-01 00:00:00 UTC.
Instant(t) ==
    DaysSinceEpoch(t.year, t.month, t.day) * 86400 + t.hour * 3600
    + t.min * 60 + t.sec - t.offset

\* time.Parse: the text has to fit the layout and the fields to be in range.
TimeParse(layout, s) ==
    LET r == ParseLayout(layout, s, TimeStamp(0, 1, 1, 0, 0, 0, 0))
    IN  IF ~r.ok THEN [ok |-> FALSE]
        ELSE IF \/ r.fields.month \notin 1..12
                \/ r.fields.day \notin 1..DaysIn(r.fields.month, r.fields.year)
                \/ r.fields.hour > 23 \/ r.fields.min > 59 \/ r.fields.sec > 59
        THEN [ok |-> FALSE]
        ELSE [ok |-> TRUE, instant |-> Instant(r.fields),
              offset |-> r.fields.offset]

\* NonIsoTime.UnmarshalJSON
NonIsoTimeUnmarshalJSON(p) == TimeParse(NonIsoTimeFormat, RemoveQuotes(p))

\* time.Time.UnmarshalJSON: an RFC 3339 text between quotes.
TimeUnmarshalJSON(p) ==
    IF Len(p) < 2 \/ p[1] # "\"" \/ p[Len(p)] # "\"" THEN [ok |-> FALSE]
    ELSE TimeParse(RFC3339, SubSeq(p, 2, Len(p) - 1))

\* The values the codecs are applied to.
NoOutput == [ok |-> FALSE]
CodecInputs ==
    {[pc |-> "input", type |-> "Duration", value |-> d, json |-> << >>,
      isoJson |-> << >>, out |-> NoOutput, isoOut |-> NoOutput] :
       d \in Durations}
    \cup {[pc |-> "input", type |-> "NonIsoTime", value |-> t,
           json |-> MarshalString(NonIsoText(t)),
           isoJson |-> MarshalString(IsoText(t)), out |-> NoOutput,
           isoOut |-> NoOutput] : t \in TimeStamps}

\* ------------------------------------------------------------------ Init
ClientInit ==
    /\ now = StartTime
    /\ accessToken = InitialAccessToken
    /\ refreshToken = InitialRefreshToken
    /\ tokenExpiry = ZeroTime
    /\ rpm = DefaultRealtimeRPM
    /\ rateLimitMutex = NoProc
    /\ lastRequestTime = ZeroTime
    /\ pc = [p \in Procs |-> "idle"]
    /\ op = [p \in Procs |-> "none"]
    /\ endpoint = [p \in Procs |-> ""]
    /\ wake = [p \in Procs |-> ZeroTime]
    /\ expired = [p \in Procs |-> FALSE]
    /\ refreshSent = [p \in Procs |-> 0]
    /\ dataSent = [p \in Procs |-> 0]
    /\ net = [p \in Procs |-> NoMsg]
    /\ tokenResp = [p \in Procs |-> NoTokenResp]
    /\ refreshErr = [p \in Procs |-> NoResult]
    /\ result = [p \in Procs |-> NoResult]
    /\ selectedSiteID = NoSite
    /\ api = [p \in Procs |-> NoCall]
    /\ apiResult = [p \in Procs |-> NoResult]
    /\ errFuncCalls = [p \in Procs |-> << >>]
    /\ req = [p \in Procs |-> NoMsg]
    /\ issued = [p \in Procs |-> NoToken]
    /\ stamped = [p \in Procs |-> 0]
    /\ rejected = NoToken

\* No command-line run and no codec evaluation: the library used on its own.
Init ==
    /\ ClientInit
    /\ cli = NoCli
    /\ codec = NoCodec

\* --------------------------------------------------------------- actions
\* The clock advances.
Tick ==
    /\ now < StartTime + MaxTicks
    /\ now' = now + 1
    /\ UNCHANGED << clientVars, localVars >>
    /\ UNCHANGED outerVars
    /\ UNCHANGED traceVars

\* SetRateLimit: lock, store, unlock.
SetRateLimit(r) ==
    /\ CanLock(rateLimitMutex)
    /\ rpm' = r
    /\ UNCHANGED << now, accessToken, refreshToken, tokenExpiry, rateLimitMutex,
                    lastRequestTime, localVars >>
    /\ UNCHANGED outerVars
    /\ UNCHANGED traceVars

\* A caller enters doFleetRequest.
CallDoFleetRequest(p, e) ==
    /\ pc[p] = "idle"
    /\ pc' = [pc EXCEPT ![p] = "rl_lock"]
    /\ op' = [op EXCEPT ![p] = "doFleetRequest"]
    /\ endpoint' = [endpoint EXCEPT ![p] = e]
    /\ UNCHANGED << now, clientVars, wake, expired, refreshSent, dataSent, net,
                    tokenResp, refreshErr, result >>
    /\ UNCHANGED outerVars
    /\ UNCHANGED traceVars

\* rateLimitWait, from Lock to the decision to sleep.  A zero RPM makes the
\* division panic; the deferred Unlock releases the mutex as the panic unwinds.
RateLimitEnter(p) ==
    /\ pc[p] = "rl_lock"
    /\ CanLock(rateLimitMutex)
    /\ IF rpm = 0
       THEN /\ pc' = [pc EXCEPT ![p] = "panicked"]
            /\ UNCHANGED << rateLimitMutex, wake >>
       ELSE LET elapsed == now - lastRequestTime
            IN  /\ rateLimitMutex' = p
                /\ IF elapsed < Interval(rpm)
                   THEN /\ wake' = [wake EXCEPT ![p] = now + (Interval(rpm) - elapsed)]
                        /\ pc' = [pc EXCEPT ![p] = "rl_sleep"]
                   ELSE /\ pc' = [pc EXCEPT ![p] = "rl_stamp"]
                        /\ UNCHANGED wake
    /\ UNCHANGED << now, accessToken, refreshToken, tokenExpiry, rpm,
                    lastRequestTime, op, endpoint, expired, refreshSent,
                    dataSent, net, tokenResp, refreshErr, result >>
    /\ UNCHANGED outerVars
    /\ UNCHANGED traceVars

\* time.Sleep(waitTime) returns once at least waitTime has passed.
RateLimitWake(p) ==
    /\ pc[p] = "rl_sleep"
    /\ now >= wake[p]
    /\ pc' = [pc EXCEPT ![p] = "rl_stamp"]
    /\ UNCHANGED << now, clientVars, op, endpoint, wake, expired, refreshSent,
                    dataSent, net, tokenResp, refreshErr, result >>
    /\ UNCHANGED outerVars
    /\ UNCHANGED traceVars

\* c.lastRequestTime = time.Now(), then the deferred Unlock.
RateLimitStamp(p) ==
    /\ pc[p] = "rl_stamp"
    /\ lastRequestTime' = now
    /\ rateLimitMutex' = Unlock(rateLimitMutex)
    /\ pc' = [pc EXCEPT ![p] = "check"]
    /\ wake' = [wake EXCEPT ![p] = ZeroTime]
    /\ UNCHANGED << now, accessToken, refreshToken, tokenExpiry, rpm, op,
                    endpoint, expired, refreshSent, dataSent, net,
                    tokenResp, refreshErr, result >>
    /\ UNCHANGED outerVars
    /\ stamped' = [stamped EXCEPT ![p] = @ + 1]
    /\ UNCHANGED << req, issued, rejected >>

\* A caller calls the public RefreshToken directly.
CallRefreshToken(p) ==
    /\ pc[p] = "idle"
    /\ pc' = [pc EXCEPT ![p] = "rf_send"]
    /\ op' = [op EXCEPT ![p] = "RefreshToken"]
    /\ UNCHANGED << now, clientVars, endpoint, wake, expired, refreshSent,
                    dataSent, net, tokenResp, refreshErr, result >>
    /\ UNCHANGED outerVars
    /\ UNCHANGED traceVars

SetRefreshToken(t) ==
    /\ refreshToken' = t
    /\ UNCHANGED << now, accessToken, tokenExpiry, rpm, rateLimitMutex,
                    lastRequestTime, localVars >>
    /\ UNCHANGED outerVars
    /\ UNCHANGED traceVars

\* if c.IsTokenExpired() { ... c.RefreshToken() ... }
CheckToken(p) ==
    /\ pc[p] = "check"
    /\ expired' = [expired EXCEPT ![p] = IsTokenExpired(now, tokenExpiry)]
    /\ pc' = [pc EXCEPT ![p] = IF IsTokenExpired(now, tokenExpiry)
                               THEN "rf_send" ELSE "send"]
    /\ UNCHANGED << now, clientVars, op, endpoint, wake, refreshSent, dataSent,
                    net, tokenResp, refreshErr, result >>
    /\ UNCHANGED outerVars
    /\ UNCHANGED traceVars

\* RefreshToken builds the form and hands it to httpClient.Do.
RefreshSend(p) ==
    /\ pc[p] = "rf_send"
    /\ net' = [net EXCEPT ![p] = [kind |-> "token_request", url |-> TokenURL,
                                  refresh_token |-> refreshToken,
                                  client_id |-> ClientID]]
    /\ refreshSent' = [refreshSent EXCEPT ![p] = @ + 1]
    /\ pc' = [pc EXCEPT ![p] = "rf_await"]
    /\ UNCHANGED << now, clientVars, op, endpoint, wake, expired, dataSent,
                    tokenResp, refreshErr, result >>
    /\ UNCHANGED outerVars
    /\ UNCHANGED traceVars

\* The token endpoint (or the transport) answers.
TokenServer(p, r) ==
    /\ net[p].kind = "token_request"
    /\ net' = [net EXCEPT ![p] = r]
    /\ UNCHANGED << now, clientVars, pc, op, endpoint, wake, expired,
                    refreshSent, dataSent, tokenResp, refreshErr, result >>
    /\ UNCHANGED outerVars
    /\ UNCHANGED traceVars

\* RefreshToken from the return of httpClient.Do to json.Unmarshal; on an
\* error RefreshToken returns it, and doFleetRequest returns it in turn.
RefreshRecv(p) ==
    /\ pc[p] = "rf_await"
    /\ net[p].kind \in {"transport_error", "response"}
    /\ net' = [net EXCEPT ![p] = NoMsg]
    /\ LET err == RefreshOutcome(net[p], now)
       IN  IF ~RefreshReturns(err)
           THEN /\ tokenResp' = [tokenResp EXCEPT ![p] = DecodedToken(net[p])]
                /\ pc' = [pc EXCEPT ![p] = "rf_access"]
                /\ UNCHANGED << refreshErr, result >>
           ELSE /\ refreshErr' = [refreshErr EXCEPT ![p] = err]
                /\ pc' = [pc EXCEPT ![p] =
                            IF op[p] = "RefreshToken" THEN "done"
                            ELSE AfterRefresh(err)]
                /\ result' = [result EXCEPT ![p] =
                            IF pc'[p] = "done" THEN err ELSE @]
                /\ UNCHANGED tokenResp
    /\ UNCHANGED << now, clientVars, op, endpoint, wake, expired, refreshSent,
                    dataSent >>
    /\ UNCHANGED outerVars
    /\ UNCHANGED traceVars

\* c.accessToken = tokenResp.AccessToken
RefreshStoreAccess(p) ==
    /\ pc[p] = "rf_access"
    /\ accessToken' = StoredAccessToken(accessToken, tokenResp[p].access_token)
    /\ pc' = [pc EXCEPT ![p] = "rf_refresh"]
    /\ UNCHANGED << now, refreshToken, tokenExpiry, rpm, rateLimitMutex,
                    lastRequestTime, op, endpoint, wake, expired, refreshSent,
                    dataSent, net, tokenResp, refreshErr, result >>
    /\ UNCHANGED outerVars
    /\ issued' = [issued EXCEPT ![p] = tokenResp[p].access_token]
    /\ rejected' = StillRejected(rejected, tokenResp[p].access_token)
    /\ UNCHANGED << req, stamped >>

\* if tokenResp.RefreshToken != "" { c.refreshToken = tokenResp.RefreshToken }
RefreshStoreRefresh(p) ==
    /\ pc[p] = "rf_refresh"
    /\ refreshToken' = StoredRefreshToken(refreshToken, tokenResp[p].refresh_token)
    /\ pc' = [pc EXCEPT ![p] = "rf_expiry"]
    /\ UNCHANGED << now, accessToken, tokenExpiry, rpm, rateLimitMutex,
                    lastRequestTime, op, endpoint, wake, expired, refreshSent,
                    dataSent, net, tokenResp, refreshErr, result >>
    /\ UNCHANGED outerVars
    /\ UNCHANGED traceVars

\* c.tokenExpiry = time.Now().Add(ExpiresIn seconds); return nil
RefreshStoreExpiry(p) ==
    /\ pc[p] = "rf_expiry"
    /\ tokenExpiry' = now + tokenResp[p].expires_in
    /\ tokenResp' = [tokenResp EXCEPT ![p] = NoTokenResp]
    /\ refreshErr' = [refreshErr EXCEPT ![p] = [kind |-> "nil"]]
    /\ pc' = [pc EXCEPT ![p] =
                IF op[p] = "RefreshToken" THEN "done"
                ELSE AfterRefresh([kind |-> "nil"])]
    /\ result' = [result EXCEPT ![p] =
                IF op[p] = "RefreshToken" THEN [kind |-> "nil"] ELSE @]
    /\ UNCHANGED << now, accessToken, refreshToken, rpm, rateLimitMutex,
                    lastRequestTime, op, endpoint, wake, expired, refreshSent,
                    dataSent, net >>
    /\ UNCHANGED outerVars
    /\ UNCHANGED traceVars

\* doFleetRequest builds the request, sets the headers and calls httpClient.Do.
DataSend(p) ==
    /\ pc[p] = "send"
    /\ net' = [net EXCEPT ![p] = [kind |-> "data_request",
                                  url |-> << FleetAPIBaseURL, endpoint[p] >>,
                                  authorization |-> Authorization(accessToken)]]
    /\ dataSent' = [dataSent EXCEPT ![p] = @ + 1]
    /\ pc' = [pc EXCEPT ![p] = "await"]
    /\ UNCHANGED << now, clientVars, op, endpoint, wake, expired, refreshSent,
                    tokenResp, refreshErr, result >>
    /\ UNCHANGED outerVars
    /\ req' = [req EXCEPT ![p] = net'[p]]
    /\ UNCHANGED << issued, stamped, rejected >>

\* The Fleet API (or the transport) answers; the request's URL stays with the
\* caller's req.
FleetServer(p, r) ==
    /\ net[p].kind = "data_request"
    /\ net' = [net EXCEPT ![p] = r]
    /\ UNCHANGED << now, clientVars, pc, op, endpoint, wake, expired,
                    refreshSent, dataSent, tokenResp, refreshErr, result >>
    /\ UNCHANGED outerVars
    /\ UNCHANGED traceVars

\* doFleetRequest from the return of httpClient.Do through the status switch.
DataRecv(p) ==
    /\ pc[p] = "await"
    /\ net[p].kind \in {"transport_error", "response"}
    /\ net' = [net EXCEPT ![p] = NoMsg]
    /\ IF net[p].kind = "transport_error"
       THEN /\ result' = [result EXCEPT ![p] = TransportError(net[p])]
            /\ pc' = [pc EXCEPT ![p] = "done"]
       ELSE /\ result' = [result EXCEPT ![p] =
                    Classify(net[p], << FleetAPIBaseURL, endpoint[p] >>,
                             endpoint[p], tokenExpiry, rpm, now)]
            /\ pc' = [pc EXCEPT ![p] = AfterStatus(net[p].status)]
    /\ tokenExpiry' = IF net[p].kind = "transport_error" THEN tokenExpiry
                      ELSE ExpiryAfterStatus(net[p].status, tokenExpiry)
    /\ UNCHANGED << now, accessToken, refreshToken, rpm, rateLimitMutex,
                    lastRequestTime, op, endpoint, wake, expired, refreshSent,
                    dataSent, tokenResp, refreshErr >>
    /\ UNCHANGED outerVars
    /\ rejected' = IF net[p].kind = "response" /\ net[p].status = StatusUnauthorized
                   THEN StillRejected(req[p].authorization[2], accessToken)
                   ELSE rejected
    /\ UNCHANGED << req, issued, stamped >>

\* The call returns to its caller.
Return(p) ==
    /\ pc[p] = "done"
    /\ api[p] = NoCall
    /\ pc' = [pc EXCEPT ![p] = "idle"]
    /\ op' = [op EXCEPT ![p] = "none"]
    /\ endpoint' = [endpoint EXCEPT ![p] = ""]
    /\ expired' = [expired EXCEPT ![p] = FALSE]
    /\ refreshSent' = [refreshSent EXCEPT ![p] = 0]
    /\ dataSent' = [dataSent EXCEPT ![p] = 0]
    /\ refreshErr' = [refreshErr EXCEPT ![p] = NoResult]
    /\ result' = [result EXCEPT ![p] = NoResult]
    /\ UNCHANGED << now, clientVars, wake, net, tokenResp >>
    /\ UNCHANGED outerVars
    /\ req' = [req EXCEPT ![p] = NoMsg]
    /\ issued' = [issued EXCEPT ![p] = NoToken]
    /\ stamped' = [stamped EXCEPT ![p] = 0]
    /\ UNCHANGED rejected

\* SelectEnergySite stores the identifier, whatever it is.  (The Do actions
\* say what a method does to the client; who called it says the rest.)
DoSelectEnergySite(id) ==
    /\ selectedSiteID' = id
    /\ UNCHANGED << now, clientVars, localVars, api, apiResult, errFuncCalls,
                    codec, traceVars >>

\* SelectEnergySite called by a user of the library.
SelectEnergySite(id) == DoSelectEnergySite(id) /\ UNCHANGED cli

\* A caller enters an endpoint method: the method returns at once with the
\* error of a failed check, or builds its endpoint and enters doFleetRequest
\* through apiGetJson or apiPostJson.
DoApiCall(p, c) ==
    /\ pc[p] = "idle"
    /\ api' = [api EXCEPT ![p] = Resolve(c, now)]
    /\ IF Validate(Resolve(c, now), selectedSiteID).kind # "none"
       THEN /\ apiResult' = [apiResult EXCEPT ![p] =
                                Validate(Resolve(c, now), selectedSiteID)]
            /\ pc' = [pc EXCEPT ![p] = "api_done"]
            /\ UNCHANGED << op, endpoint >>
       ELSE /\ pc' = [pc EXCEPT ![p] = "rl_lock"]
            /\ op' = [op EXCEPT ![p] = "doFleetRequest"]
            /\ endpoint' = [endpoint EXCEPT ![p] =
                   RequestOf(Resolve(c, now), selectedSiteID).endpoint]
            /\ UNCHANGED apiResult
    /\ UNCHANGED << now, clientVars, wake, expired, refreshSent, dataSent, net,
                    tokenResp, refreshErr, result, selectedSiteID, errFuncCalls,
                    codec, traceVars >>

\* An endpoint method called by a user of the library.
ApiCall(p, c) == DoApiCall(p, c) /\ UNCHANGED cli

\* apiGetJson and apiPostJson after doFleetRequest has returned, and the
\* method's own code after them: the core's error is handed on; a body that
\* does not decode is reported to errFunc and the decode error returned;
\* otherwise the method builds its result.
ApiFinish(p) ==
    /\ pc[p] = "done"
    /\ api[p].name # "none"
    /\ pc' = [pc EXCEPT ![p] = "api_done"]
    /\ IF result[p].kind # "ok"
       THEN /\ apiResult' = [apiResult EXCEPT ![p] = result[p]]
            /\ UNCHANGED errFuncCalls
       ELSE IF ~Decodes(result[p].body, TargetOf(api[p]))
       THEN /\ apiResult' = [apiResult EXCEPT ![p] = [kind |-> "DecodeError"]]
            /\ errFuncCalls' = [errFuncCalls EXCEPT ![p] =
                   Append(@, JsonError(endpoint[p], result[p].body,
                                       [kind |-> "DecodeError"]))]
       ELSE /\ apiResult' = [apiResult EXCEPT ![p] =
                   [kind |-> "nil",
                    value |-> MapResult(api[p], result[p].body, selectedSiteID)]]
            /\ UNCHANGED errFuncCalls
    /\ UNCHANGED << now, clientVars, op, endpoint, wake, expired, refreshSent,
                    dataSent, net, tokenResp, refreshErr, result,
                    selectedSiteID, api, cli, codec, traceVars >>

\* The endpoint method returns to its caller.
DoApiReturn(p) ==
    /\ pc[p] = "api_done"
    /\ pc' = [pc EXCEPT ![p] = "idle"]
    /\ op' = [op EXCEPT ![p] = "none"]
    /\ endpoint' = [endpoint EXCEPT ![p] = ""]
    /\ expired' = [expired EXCEPT ![p] = FALSE]
    /\ refreshSent' = [refreshSent EXCEPT ![p] = 0]
    /\ dataSent' = [dataSent EXCEPT ![p] = 0]
    /\ refreshErr' = [refreshErr EXCEPT ![p] = NoResult]
    /\ result' = [result EXCEPT ![p] = NoResult]
    /\ api' = [api EXCEPT ![p] = NoCall]
    /\ apiResult' = [apiResult EXCEPT ![p] = NoResult]
    /\ errFuncCalls' = [errFuncCalls EXCEPT ![p] = << >>]
    /\ req' = [req EXCEPT ![p] = NoMsg]
    /\ issued' = [issued EXCEPT ![p] = NoToken]
    /\ stamped' = [stamped EXCEPT ![p] = 0]
    /\ UNCHANGED << now, clientVars, wake, net, tokenResp, selectedSiteID,
                    codec, rejected >>

\* The return to a user of the library.
ApiReturn(p) == DoApiReturn(p) /\ UNCHANGED cli

\* The next-state relation of the endpoint methods over a set of callers and
\* of calls, under the default rate limit.
NextApiOver(P, C) ==
    \/ Tick
    \/ \E id \in SiteIDs : SelectEnergySite(id)
    \/ \E p \in P, c \in C : ApiCall(p, c)
    \/ \E p \in P : RateLimitEnter(p)
    \/ \E p \in P : RateLimitWake(p)
    \/ \E p \in P : RateLimitStamp(p)
    \/ \E p \in P : CheckToken(p)
    \/ \E p \in P : RefreshSend(p)
    \/ \E p \in P, r \in ApiTokenResponses : TokenServer(p, r)
    \/ \E p \in P : RefreshRecv(p)
    \/ \E p \in P : RefreshStoreAccess(p)
    \/ \E p \in P : RefreshStoreRefresh(p)
    \/ \E p \in P : RefreshStoreExpiry(p)
    \/ \E p \in P : DataSend(p)
    \/ \E p \in P : /\ net[p].kind = "data_request"
                     /\ \E r \in ApiResponses(endpoint[p]) : FleetServer(p, r)
    \/ \E p \in P : DataRecv(p)
    \/ \E p \in P : ApiFinish(p)
    \/ \E p \in P : ApiReturn(p)

NextApi == NextApiOver({"A"}, ApiCalls)

\* Callers that issue control commands only.
CommandCalls ==
    ControlCalls
    \cup {Call(n) : n \in {"EnableStormWatch", "DisableStormWatch",
                           "SetMinimumBackupReserve",
                           "SetMaximumBackupReserve"}}
NextCmd == NextApiOver({"A"}, CommandCalls)

\* A caller that uses both the endpoint methods (one that needs no site, and
\* some of each kind that can fail before its request) and RefreshToken.
FrameCalls ==
    {Call(n) : n \in {"GetProducts", "GetStatus", "GetOperation",
                      "SetMinimumBackupReserve"}}
    \cup {[Call("SetBackupReserve") EXCEPT !.percent = 101]}
    \cup {[Call("GetEnergyHistory") EXCEPT !.startDate = StartDate,
              !.endDate = EndDate, !.period = per] :
             per \in {"day", "fortnight"}}
NextFrame ==
    \/ NextApiOver({"A"}, FrameCalls)
    \/ CallRefreshToken("A")
    \/ Return("A")

\* ------------------------------------------ the command-line program
\* flags.Parse: a failure (an unknown flag, no command, --help) ends the
\* program; otherwise the options are filled in.
CliParseFlags(ok, site, cmd, args) ==
    /\ cli.pc = "parse"
    /\ cli' = IF ~ok THEN CliExit(ExitFlags, "flags", NoResult)
              ELSE [cli EXCEPT !.pc = "env", !.optSiteID = site,
                               !.command = cmd, !.args = args]
    /\ UNCHANGED << now, clientVars, localVars, apiVars, codec, traceVars >>

\* The credentials are read from the environment; with all three present
\* the client is made from them.
CliCredentials(a, r, c) ==
    /\ cli.pc = "env"
    /\ IF a = "" \/ r = "" \/ c = ""
       THEN /\ cli' = CliExit(ExitSetup, "credentials", NoResult)
            /\ UNCHANGED << accessToken, refreshToken >>
       ELSE /\ cli' = [cli EXCEPT !.pc = "site_id"]
            /\ accessToken' = a
            /\ refreshToken' = r
    /\ UNCHANGED << now, tokenExpiry, rpm, rateLimitMutex, lastRequestTime,
                    localVars, apiVars, codec, traceVars >>

\* The site is the --site-id option or, when that is 0, SITE_ID.
CliSiteID(env) ==
    /\ cli.pc = "site_id"
    /\ cli' = IF cli.optSiteID # NoSite \/ env = << >>
              THEN [cli EXCEPT !.siteID = cli.optSiteID,
                      !.pc = IF cli.optSiteID = NoSite THEN "auto"
                             ELSE "select"]
              ELSE IF ~Atoi(env).ok
              THEN CliExit(ExitSetup, "SITE_ID", NoResult)
              ELSE [cli EXCEPT !.siteID = Atoi(env).n,
                      !.pc = IF Atoi(env).n = NoSite THEN "auto"
                             ELSE "select"]
    /\ UNCHANGED << now, clientVars, localVars, apiVars, codec, traceVars >>

\* With no site given the program asks for the energy products.
CliAutoSelect ==
    /\ cli.pc = "auto"
    /\ DoApiCall("A", Call("GetEnergyProducts"))
    /\ cli' = [cli EXCEPT !.pc = "auto_wait"]

\* GetEnergyProducts has returned: an error or an empty list ends the
\* program, otherwise the first product is the site.
CliAutoSelected ==
    /\ cli.pc = "auto_wait"
    /\ DoApiReturn("A")
    /\ cli' = IF apiResult["A"].kind # "nil"
              THEN CliExit(ExitSetup, "", apiResult["A"])
              ELSE IF Len(apiResult["A"].value) = 0
              THEN CliExit(ExitSetup, "no products", NoResult)
              ELSE [cli EXCEPT !.pc = "select",
                      !.siteID = apiResult["A"].value[1].energy_site_id]

\* client.SelectEnergySite(siteID), which returns no error.
CliSelectSite ==
    /\ cli.pc = "select"
    /\ DoSelectEnergySite(cli.siteID)
    /\ cli' = [cli EXCEPT !.pc = "dispatch"]

\* The command switch up to the call of the library.
CliDispatch ==
    /\ cli.pc = "dispatch"
    /\ IF cli.command \notin DOMAIN CliMethod
       THEN /\ cli' = CliExit(ExitUsage, "unknown command", NoResult)
            /\ UNCHANGED << now, clientVars, localVars, apiVars, codec, traceVars >>
       ELSE IF Len(cli.args) < CliMinArgs(cli.command)
       THEN /\ cli' = CliExit(ExitUsage, "missing argument", NoResult)
            /\ UNCHANGED << now, clientVars, localVars, apiVars, codec, traceVars >>
       ELSE IF cli.command = "set_backup_reserve" /\ ~Atoi(cli.args[1]).ok
       THEN /\ cli' = CliExit(ExitUsage, "invalid percentage", NoResult)
            /\ UNCHANGED << now, clientVars, localVars, apiVars, codec, traceVars >>
       ELSE /\ cli' = [cli EXCEPT !.pc = "cmd_wait"]
            /\ DoApiCall("A", CliCallOf(cli.command, cli.args))

\* The library has returned: handleError on an error, otherwise the result
\* is written and main returns.
CliFinish ==
    /\ cli.pc = "cmd_wait"
    /\ DoApiReturn("A")
    /\ cli' = IF apiResult["A"].kind # "nil"
              THEN CliExit(HandleError(apiResult["A"]), "", apiResult["A"])
              ELSE CliExit(ExitOK, "", NoResult)

\* The next-state relation of one run of the program.
NextCli ==
    \/ Tick
    \/ \E ok \in BOOLEAN, site \in SiteIDs, cmd \in CliCommands :
         \E args \in CliArgs(cmd) : CliParseFlags(ok, site, cmd, args)
    \/ \E a \in {"", InitialAccessToken}, r \in {"", InitialRefreshToken},
          c \in {"", ClientID} : CliCredentials(a, r, c)
    \/ \E env \in CliEnvSiteIDs : CliSiteID(env)
    \/ CliAutoSelect
    \/ CliAutoSelected
    \/ CliSelectSite
    \/ CliDispatch
    \/ CliFinish
    \/ RateLimitEnter("A")
    \/ RateLimitWake("A")
    \/ RateLimitStamp("A")
    \/ CheckToken("A")
    \/ RefreshSend("A")
    \/ \E r \in ApiTokenResponses : TokenServer("A", r)
    \/ RefreshRecv("A")
    \/ RefreshStoreAccess("A")
    \/ RefreshStoreRefresh("A")
    \/ RefreshStoreExpiry("A")
    \/ DataSend("A")
    \/ /\ net["A"].kind = "data_request"
       /\ \E r \in ApiResponses(endpoint["A"]) : FleetServer("A", r)
    \/ DataRecv("A")
    \/ ApiFinish("A")

\* One run of the command-line program.
InitCli ==
    /\ ClientInit
    /\ cli = CliStart
    /\ codec = NoCodec

\* ------------------------------------------------------- the JSON codecs
\* Duration.MarshalJSON applied to the value.
MarshalDuration ==
    /\ codec.pc = "input"
    /\ codec.type = "Duration"
    /\ codec' = [codec EXCEPT !.pc = "encoded",
                              !.json = DurationMarshalJSON(codec.value)]
    /\ UNCHANGED << now, clientVars, localVars, apiVars, cli, traceVars >>

\* Duration.UnmarshalJSON applied to what MarshalJSON gave.
UnmarshalDuration ==
    /\ codec.pc = "encoded"
    /\ codec.type = "Duration"
    /\ codec' = [codec EXCEPT !.pc = "decoded",
                              !.out = DurationUnmarshalJSON(codec.json)]
    /\ UNCHANGED << now, clientVars, localVars, apiVars, cli, traceVars >>

\* NonIsoTime.UnmarshalJSON applied to the timestamp's own text.
UnmarshalNonIsoTime ==
    /\ codec.pc = "input"
    /\ codec.type = "NonIsoTime"
    /\ codec' = [codec EXCEPT !.pc = "encoded",
                              !.out = NonIsoTimeUnmarshalJSON(codec.json)]
    /\ UNCHANGED << now, clientVars, localVars, apiVars, cli, traceVars >>

\* time.Time.UnmarshalJSON applied to the timestamp's ISO 8601 text.
UnmarshalTime ==
    /\ codec.pc = "encoded"
    /\ codec.type = "NonIsoTime"
    /\ codec' = [codec EXCEPT !.pc = "decoded",
                              !.isoOut = TimeUnmarshalJSON(codec.isoJson)]
    /\ UNCHANGED << now, clientVars, localVars, apiVars, cli, traceVars >>

NextCodec ==
    \/ MarshalDuration
    \/ UnmarshalDuration
    \/ UnmarshalNonIsoTime
    \/ UnmarshalTime

\* A codec applied to one value.
InitCodec ==
    /\ ClientInit
    /\ cli = NoCli
    /\ codec \in CodecInputs

\* The next-state relation over a set of callers and of inputs.
NextOver(P, RL, ST, TR, DR) ==
    \/ Tick
    \/ \E r \in RL : SetRateLimit(r)
    \/ \E t \in ST : SetRefreshToken(t)
    \/ \E p \in P, e \in Endpoints : CallDoFleetRequest(p, e)
    \/ \E p \in P : CallRefreshToken(p)
    \/ \E p \in P : RateLimitEnter(p)
    \/ \E p \in P : RateLimitWake(p)
    \/ \E p \in P : RateLimitStamp(p)
    \/ \E p \in P : CheckToken(p)
    \/ \E p \in P : RefreshSend(p)
    \/ \E p \in P, r \in TR : TokenServer(p, r)
    \/ \E p \in P : RefreshRecv(p)
    \/ \E p \in P : RefreshStoreAccess(p)
    \/ \E p \in P : RefreshStoreRefresh(p)
    \/ \E p \in P : RefreshStoreExpiry(p)
    \/ \E p \in P : DataSend(p)
    \/ \E p \in P, r \in DR : FleetServer(p, r)
    \/ \E p \in P : DataRecv(p)
    \/ \E p \in P : Return(p)

\* One caller, every input.
Next == NextOver({"A"}, RateLimits, SetTokens, TokenResponses, DataResponses)

\* Two concurrent callers, the inputs that decide the interleavings.
ConcRateLimits == {30}
ConcTokenResponses ==
    { [kind |-> "transport_error", err |-> "connection refused"] }
    \cup { [kind |-> "response", status |-> StatusOK,
            body |-> [json |-> TRUE, access_token |-> "at1",
                      refresh_token |-> r, expires_in |-> 302]] : r \in {"", "rt1"} }
ConcDataResponses ==
    { [kind |-> "response", status |-> s, body |-> "body1", retry_after |-> <<>>] :
        s \in {200, 401} }
NextConc ==
    NextOver(Procs, ConcRateLimits, SetTokens, ConcTokenResponses,
             ConcDataResponses)

\* Time does not stop while a caller sleeps: the clock goes on past the last
\* instant at which calls are made until every sleeper can wake.
TickWhileSleeping ==
    /\ now >= StartTime + MaxTicks
    /\ \E p \in Procs : pc[p] = "rl_sleep" /\ wake[p] > now
    /\ now' = now + 1
    /\ UNCHANGED << clientVars, localVars >>
    /\ UNCHANGED outerVars
    /\ UNCHANGED traceVars

\* A caller enters doFleetRequest while calls are still being made.
CallInTime(p, e) ==
    /\ now < StartTime + MaxTicks
    /\ CallDoFleetRequest(p, e)

\* Concurrent callers that make calls for a while, under the default rate
\* limit, each call then running to its end.
NextLive ==
    \/ Tick
    \/ TickWhileSleeping
    \/ \E p \in Procs, e \in Endpoints : CallInTime(p, e)
    \/ \E p \in Procs : RateLimitEnter(p)
    \/ \E p \in Procs : RateLimitWake(p)
    \/ \E p \in Procs : RateLimitStamp(p)
    \/ \E p \in Procs : CheckToken(p)
    \/ \E p \in Procs : RefreshSend(p)
    \/ \E p \in Procs, r \in ConcTokenResponses : TokenServer(p, r)
    \/ \E p \in Procs : RefreshRecv(p)
    \/ \E p \in Procs : RefreshStoreAccess(p)
    \/ \E p \in Procs : RefreshStoreRefresh(p)
    \/ \E p \in Procs : RefreshStoreExpiry(p)
    \/ \E p \in Procs : DataSend(p)
    \/ \E p \in Procs, r \in ConcDataResponses : FleetServer(p, r)
    \/ \E p \in Procs : DataRecv(p)
    \/ \E p \in Procs : Return(p)

\* Time advances, every HTTP exchange is answered, every caller that can take
\* a step of its call takes it, and a caller that waits for the mutex gets it
\* if it is free again and again.
Fairness ==
    /\ WF_vars(Tick)
    /\ WF_vars(TickWhileSleeping)
    /\ \A p \in Procs :
          /\ SF_vars(RateLimitEnter(p))
          /\ WF_vars(RateLimitWake(p))
          /\ WF_vars(RateLimitStamp(p))
          /\ WF_vars(CheckToken(p))
          /\ WF_vars(RefreshSend(p))
          /\ WF_vars(\E r \in ConcTokenResponses : TokenServer(p, r))
          /\ WF_vars(RefreshRecv(p))
          /\ WF_vars(RefreshStoreAccess(p))
          /\ WF_vars(RefreshStoreRefresh(p))
          /\ WF_vars(RefreshStoreExpiry(p))
          /\ WF_vars(DataSend(p))
          /\ WF_vars(\E r \in ConcDataResponses : FleetServer(p, r))
          /\ WF_vars(DataRecv(p))

\* One caller, the default rate limit or half of it, the token endpoint in
\* full.
NextToken ==
    NextOver({"A"}, ConcRateLimits, SetTokens, RefreshResponses,
             RefreshDataResponses)

Spec == Init /\ [][Next]_vars
SpecConc == Init /\ [][NextConc]_vars
SpecApi == Init /\ [][NextApi]_vars
SpecCmd == Init /\ [][NextCmd]_vars
SpecCli == InitCli /\ [][NextCli]_vars
SpecCodec == InitCodec /\ [][NextCodec]_vars
SpecToken == Init /\ [][NextToken]_vars
SpecFrame == Init /\ [][NextFrame]_vars
SpecLive == Init /\ [][NextLive]_vars /\ Fairness
\* ================================================================ claims

\* The step in which caller p leaves rateLimitWait (records lastRequestTime).
Stamps(p) == pc[p] = "rl_stamp" /\ pc'[p] = "check"
\* The step in which caller p evaluates IsTokenExpired in doFleetRequest.
Checks(p) == pc[p] = "check" /\ pc'[p] # "check"
\* The step in which caller p's doFleetRequest classifies an HTTP response.
Classifies(p) ==
    pc[p] = "await" /\ pc'[p] # "await" /\ net[p].kind = "response"
RefreshPCs == {"rf_send", "rf_await", "rf_access", "rf_refresh", "rf_expiry"}

\* C1: for every positive rate limit R, two successive requests through
\* doFleetRequest are stamped at least 60/R seconds apart, 60/R being the exact
\* quotient: gap * R >= 60.
C1_ExactSpacing ==
    [][\A p \in Procs :
          (Stamps(p) /\ rpm > 0)
              => (lastRequestTime' - lastRequestTime) * rpm >= MinuteSeconds]_vars

\* C2 (as stated): IsTokenExpired returns true exactly when now + 5 minutes >=
\* the stored expiry, true included when the expiry is exactly 5 minutes away.
C2_InclusiveBoundary ==
    [][\A p \in Procs :
          Checks(p) => (expired'[p] <=> (now + 300 >= tokenExpiry))]_vars

\* C2 (amended): IsTokenExpired returns true exactly when now + 5 minutes is
\* strictly after the stored expiry; with the expiry exactly 5 minutes away it
\* returns false, and doFleetRequest refreshes exactly when it returned true.
C2_StrictBoundary ==
    [][\A p \in Procs :
          Checks(p) => /\ expired'[p] <=> (now + 300 > tokenExpiry)
                       /\ (pc'[p] = "rf_send") <=> (now + 300 > tokenExpiry)
                       /\ (pc'[p] = "send") <=> (now + 300 <= tokenExpiry)]_vars

\* A call that took the not-expired branch with the expiry exactly 5 minutes
\* after the current time.
C2_Witness ==
    \E p \in Procs :
        /\ pc[p] = "send" /\ ~expired[p] /\ refreshSent[p] = 0
        /\ tokenExpiry = now + 300

\* C3: in doFleetRequest a token request is sent only when IsTokenExpired
\* returned true, and then before the data request; a data request is sent only
\* when the token was not expired or the refresh returned nil; when the refresh
\* fails its error is what the call returns and no data request was sent.
C3_RefreshGate ==
    \A p \in Procs :
        op[p] = "doFleetRequest" =>
            /\ refreshSent[p] > 0 => expired[p]
            /\ (expired[p] /\ pc[p] \in {"send", "await"}) => refreshSent[p] > 0
            /\ dataSent[p] > 0 =>
                  IF expired[p] THEN refreshErr[p].kind = "nil"
                  ELSE refreshSent[p] = 0 /\ refreshErr[p].kind = "none"
            /\ refreshErr[p].kind \notin {"none", "nil"} =>
                  /\ pc[p] = "done"
                  /\ result[p] = refreshErr[p]
                  /\ dataSent[p] = 0

\* A doFleetRequest whose refresh was rejected has returned TokenExpiredError
\* for the refresh token after one token request and no data request.
C3_Witness ==
    \E p \in Procs :
        /\ op[p] = "doFleetRequest" /\ pc[p] = "done" /\ expired[p]
        /\ result[p].kind = "TokenExpiredError" /\ result[p].token = "refresh"
        /\ refreshSent[p] = 1 /\ dataSent[p] = 0

\* C4: a successful RefreshToken leaves the stored refresh token unchanged when
\* the response's refresh_token is empty or absent and replaces it with the
\* response's otherwise; the stored refresh token changes in no other way than
\* that and SetRefreshToken (so it is always the last non-empty one stored).
C4_RefreshTokenKept ==
    [][/\ \A p \in Procs :
             (pc[p] = "rf_refresh" /\ pc'[p] # "rf_refresh") =>
                 refreshToken' = IF tokenResp[p].refresh_token = ""
                                 THEN refreshToken
                                 ELSE tokenResp[p].refresh_token
       /\ refreshToken' # refreshToken =>
             \/ refreshToken' \in SetTokens /\ pc' = pc
             \/ \E p \in Procs :
                   /\ pc[p] = "rf_refresh" /\ pc'[p] = "rf_expiry"
                   /\ tokenResp[p].refresh_token = refreshToken'
                   /\ refreshToken' # ""]_vars

\* A refresh whose response carried no refresh_token has kept the token "rt1"
\* that an earlier refresh had stored.
C4_Witness ==
    \E p \in Procs :
        /\ pc[p] = "rf_expiry" /\ tokenResp[p].refresh_token = ""
        /\ refreshToken = "rt1"

\* C5: no two executions of RefreshToken started by doFleetRequest overlap.
C5_RefreshesSerialized ==
    Cardinality({p \in Procs : op[p] = "doFleetRequest" /\ pc[p] \in RefreshPCs}) <= 1

\* C6: callers leave rateLimitWait holding the mutex, each at least one minimum
\* interval (the whole seconds of 60/R) after the previous recorded
\* lastRequestTime, and a sleeping caller's wake-up instant is one interval
\* after the lastRequestTime that is current when it wakes (never a stale one).
C6_MinInterval(r) == IF r > 0 THEN MinuteSeconds \div r ELSE 0
C6_LimiterSerialized ==
    [][\A p \in Procs :
          /\ Stamps(p) =>
                /\ rateLimitMutex = p
                /\ lastRequestTime' = now
                /\ lastRequestTime' - lastRequestTime >= C6_MinInterval(rpm)
          /\ (pc[p] = "rl_sleep" /\ pc'[p] # "rl_sleep") =>
                /\ rateLimitMutex = p
                /\ wake[p] = lastRequestTime + C6_MinInterval(rpm)
                /\ now >= wake[p]]_vars

\* Caller B has slept its two seconds (30 requests per minute) holding the
\* mutex and is about to record lastRequestTime, while caller A, which entered
\* doFleetRequest meanwhile, waits for the mutex.
C6_Witness ==
    /\ pc["B"] = "rl_stamp" /\ rateLimitMutex = "B"
    /\ rpm = 30
    /\ lastRequestTime # ZeroTime
    /\ wake["B"] = lastRequestTime + 2 /\ now = wake["B"]
    /\ pc["A"] = "rl_lock"

\* C7: a call sends at most one data request and at most one token request, and
\* once a response is classified the call is over.
C7_NoRetry ==
    \A p \in Procs :
        /\ dataSent[p] <= 1
        /\ refreshSent[p] <= 1
        /\ result[p].kind # "none" => pc[p] = "done"

\* A call answered 401 after a refresh has returned, having sent one token
\* request and one data request.
C7_Witness ==
    \E p \in Procs :
        /\ pc[p] = "done" /\ result[p].kind = "TokenExpiredError"
        /\ result[p].token = "access"
        /\ refreshSent[p] = 1 /\ dataSent[p] = 1

\* C8: a 401 data response makes doFleetRequest return TokenExpiredError with
\* Token "access" and ExpiresAt the token expiry stored at that moment.
C8_Unauthorized ==
    [][\A p \in Procs :
          (Classifies(p) /\ net[p].status = 401) =>
              /\ pc'[p] = "done"
              /\ result'[p] = [kind |-> "TokenExpiredError", token |-> "access",
                               expiresAt |-> tokenExpiry]]_vars

\* A call that refreshed the token and was then answered 401, a tick after the
\* refresh: ExpiresAt is the expiry that refresh stored.
C8_Witness ==
    \E p \in Procs :
        /\ pc[p] = "done" /\ result[p].kind = "TokenExpiredError"
        /\ result[p].token = "access" /\ refreshSent[p] = 1
        /\ result[p].expiresAt = tokenExpiry
        /\ tokenExpiry \in {StartTime + 301, StartTime + 302}
        /\ now > StartTime

\* C9: a 429 data response makes doFleetRequest return RateLimitError whose
\* RetryAfter is the integer the Retry-After header starts with (blanks and a
\* sign allowed before it), and 60 when the header is absent or has no such
\* integer; ResetTime is the current time plus RetryAfter seconds.
C9_Expected(h) ==
    CASE h = <<>> -> 60
      [] h = << "3", "0" >> -> 30
      [] h = << "7" >> -> 7
      [] h = << "x" >> -> 60
      [] h = << "-", "5" >> -> -5
      [] h = << "3", "x" >> -> 3
      [] h = << " ", "7" >> -> 7
C9_RateLimited ==
    [][\A p \in Procs :
          (Classifies(p) /\ net[p].status = 429) =>
              /\ pc'[p] = "done"
              /\ result'[p].kind = "RateLimitError"
              /\ result'[p].retryAfter = C9_Expected(net[p].retry_after)
              /\ result'[p].resetTime = now + C9_Expected(net[p].retry_after)]_vars

\* A call answered 429 with Retry-After: 30 has returned RetryAfter 30 and a
\* reset time 30 seconds ahead.
C9_Witness ==
    \E p \in Procs :
        /\ pc[p] = "done" /\ result[p].kind = "RateLimitError"
        /\ result[p].retryAfter = 30 /\ result[p].resetTime = now + 30

\* C10: the status switch is total and exclusive: 200 and 201 return the body
\* and no error, 401 and 429 their typed errors, every other status ApiError
\* with the request URL, the status and the body unchanged.
C10_Classification ==
    [][\A p \in Procs :
          Classifies(p) =>
              LET s == net[p].status
                  r == result'[p]
              IN  /\ pc'[p] = "done"
                  /\ r.kind \in {"ok", "TokenExpiredError", "RateLimitError", "ApiError"}
                  /\ r.kind = "ok" <=> s \in {200, 201}
                  /\ r.kind = "ok" => r.body = net[p].body
                  /\ r.kind = "TokenExpiredError" <=> s = 401
                  /\ r.kind = "RateLimitError" <=> s = 429
                  /\ r.kind = "ApiError" <=> s \notin {200, 201, 401, 429}
                  /\ r.kind = "ApiError" =>
                        /\ r.statusCode = s
                        /\ r.body = net[p].body
                        /\ r.url = << FleetAPIBaseURL, endpoint[p] >>]_vars

\* A call answered 500 has returned ApiError with status 500 and the body sent.
C10_Witness ==
    \E p \in Procs :
        /\ pc[p] = "done" /\ result[p].kind = "ApiError"
        /\ result[p].statusCode = 500 /\ result[p].body = "body2"
        /\ dataSent[p] = 1

\* ------------------------------------------------- the endpoint methods
\* The step in which caller p enters an endpoint method.
Enters(p) == pc[p] = "idle" /\ api'[p].name # "none"
\* The call sent nothing and left the client as it was.
Untouched(p) ==
    /\ clientVars' = clientVars
    /\ selectedSiteID' = selectedSiteID
    /\ refreshSent'[p] = 0
    /\ dataSent'[p] = 0
    /\ net'[p] = NoMsg

\* C11: while the selected site identifier is 0, a site-scoped method or a
\* convenience wrapper returns in the step that calls it, with the
\* precondition error, having sent no token or data request and having left
\* the tokens, the expiry, the rate limit, its mutex and lastRequestTime as
\* they were.
C11_SiteGate ==
    [][\A p \in Procs :
         (Enters(p) /\ selectedSiteID = NoSite
          /\ api'[p].via \in SiteScopedOps \cup WrapperOps)
         => /\ pc'[p] = "api_done"
            /\ apiResult'[p].kind = "error"
            /\ apiResult'[p].msg =
                 << "no energy site selected - call SelectEnergySite() first" >>
            /\ Untouched(p)]_vars

\* C11 happens: after requests have been made with a site selected, the site
\* is set back to 0 and a convenience wrapper fails on the precondition.
C11_Witness ==
    /\ selectedSiteID = NoSite
    /\ lastRequestTime # ZeroTime
    /\ pc["A"] = "api_done"
    /\ api["A"].via = "SetMaximumBackupReserve"
    /\ apiResult["A"].kind = "error"
    /\ dataSent["A"] = 0

\* C12: with a site selected, GetEnergyHistory, GetBackupHistory and
\* GetCalendarHistory enter doFleetRequest for the calendar_history endpoint
\* exactly when the period is one of day, week, month, year and, for
\* GetCalendarHistory, the kind is energy or backup; otherwise they return a
\* validation error in the calling step, with no token or data request sent.
C12_HistoryValidation ==
    [][\A p \in Procs :
         (Enters(p) /\ selectedSiteID # NoSite /\ api'[p].name \in PeriodOps)
         => IF /\ api'[p].period \in {"day", "week", "month", "year"}
               /\ api'[p].name = "GetCalendarHistory"
                    => api'[p].kind \in {"energy", "backup"}
            THEN /\ pc'[p] = "rl_lock"
                 /\ endpoint'[p][1] = "/api/1/energy_sites/"
                 /\ endpoint'[p][2] = selectedSiteID
                 /\ endpoint'[p][3] = "/calendar_history"
            ELSE /\ pc'[p] = "api_done"
                 /\ apiResult'[p].kind = "error"
                 /\ Head(apiResult'[p].msg) \in
                      {"invalid kind for calendar history: ",
                       "invalid period for "}
                 /\ Untouched(p)]_vars

\* C12 happens: GetCalendarHistory with a valid kind and the period
\* "fortnight" has returned its validation error.
C12_Witness ==
    /\ pc["A"] = "api_done"
    /\ api["A"].name = "GetCalendarHistory"
    /\ api["A"].kind = "energy"
    /\ api["A"].period = "fortnight"
    /\ apiResult["A"].kind = "error"
    /\ Head(apiResult["A"].msg) = "invalid period for "
    /\ dataSent["A"] = 0
    /\ refreshSent["A"] = 0

\* C13: with a site selected, SetBackupReserve(p) enters doFleetRequest
\* exactly when 0 <= p <= 100, SetSiteName(n) exactly when n is not empty, and
\* SetStormMode for both booleans; a rejected call returns a local error in
\* the calling step with no token or data request sent.
C13_CommandValidation ==
    [][\A p \in Procs :
         (Enters(p) /\ selectedSiteID # NoSite /\ api'[p].name \in ControlOps)
         => IF \/ api'[p].name = "SetBackupReserve"
                  /\ 0 <= api'[p].percent /\ api'[p].percent <= 100
               \/ api'[p].name = "SetSiteName" /\ api'[p].siteName # << >>
               \/ api'[p].name = "SetStormMode" /\ api'[p].enabled \in BOOLEAN
            THEN /\ pc'[p] = "rl_lock"
                 /\ endpoint'[p][2] = selectedSiteID
                 /\ endpoint'[p][3] \in {"/backup", "/site_name", "/storm_mode"}
            ELSE /\ pc'[p] = "api_done"
                 /\ apiResult'[p].kind = "error"
                 /\ Untouched(p)]_vars

\* C13 happens: SetBackupReserve(100) has sent its request, at the upper end
\* of the accepted range.
C13_Witness ==
    /\ pc["A"] = "await"
    /\ api["A"].name = "SetBackupReserve"
    /\ api["A"].via = "SetBackupReserve"
    /\ api["A"].percent = 100
    /\ dataSent["A"] = 1
    /\ endpoint["A"][3] = "/backup"

\* C14: GetOperation, GetSystemStatus, GetSitemaster, GetNetworks,
\* GetGridFaults and GetMeters return, in the calling step and in every state
\* of the client, an UnsupportedError that names the method and gives a reason;
\* they send no token or data request and leave the tokens, the expiry, the
\* selected site, the rate limit and lastRequestTime as they were.
C14_UnsupportedStubs ==
    [][\A p \in Procs :
         (Enters(p)
          /\ api'[p].name \in {"GetOperation", "GetSystemStatus",
                               "GetSitemaster", "GetNetworks", "GetGridFaults",
                               "GetMeters"})
         => /\ pc'[p] = "api_done"
            /\ apiResult'[p].kind = "UnsupportedError"
            /\ apiResult'[p].operation = api'[p].name
            /\ apiResult'[p].reason # ""
            /\ Untouched(p)]_vars

\* C14 happens: GetMeters has returned UnsupportedError on a client that has
\* a site selected, a refreshed token and a request behind it.
C14_Witness ==
    /\ pc["A"] = "api_done"
    /\ api["A"].name = "GetMeters"
    /\ apiResult["A"].kind = "UnsupportedError"
    /\ selectedSiteID # NoSite
    /\ ~IsTokenExpired(now, tokenExpiry)
    /\ lastRequestTime # ZeroTime
    /\ dataSent["A"] = 0

\* The rate of the tier a method belongs to: CommandsRPM for the control
\* commands, RealtimeDataRPM for everything else.
C15_TierRPM(c) == IF c.name \in ControlOps THEN 30 ELSE 60

\* C15: under the default configuration the limiter spaces requests by their
\* tier: a request is admitted (its call stamps lastRequestTime) no sooner
\* than 60/30 = 2 seconds after the previous request when it is a control
\* command, and no sooner than 60/60 = 1 second otherwise.
C15_TieredSpacing ==
    [][\A p \in Procs :
         (Stamps(p) /\ lastRequestTime # ZeroTime)
         => (now - lastRequestTime) * C15_TierRPM(api[p]) >= MinuteSeconds]_vars

\* The step in which caller p's endpoint method builds its result.
Finishes(p) == pc[p] = "done" /\ pc'[p] = "api_done"
\* Sequence out is made of the elements of sequence in that satisfy the
\* test, each once and in the order they have in in.
C16_Selects(in, out, Test(_)) ==
    /\ \A i \in 1..Len(out) : Test(out[i])
    /\ Len(out) = Cardinality({i \in 1..Len(in) : Test(in[i])})
    /\ \E f \in [1..Len(out) -> 1..Len(in)] :
         /\ \A i \in 1..Len(out) : in[f[i]] = out[i]
         /\ \A i, j \in 1..Len(out) : i < j => f[i] < f[j]
C16_IsEnergy(product) == product.resource_type \in {"solar", "battery"}

\* C16: GetEnergyProducts asks for /api/1/products whether or not a site is
\* selected, and what it returns is the decoded product list reduced to the
\* products whose resource type is exactly "solar" or "battery", in their
\* original order.
C16_EnergyProducts ==
    [][\A p \in Procs :
         /\ (Enters(p) /\ api'[p].name = "GetEnergyProducts")
            => pc'[p] = "rl_lock" /\ endpoint'[p] = << "/api/1/products" >>
         /\ (Finishes(p) /\ api[p].name = "GetEnergyProducts"
             /\ apiResult'[p].kind = "nil")
            => C16_Selects(result[p].body.products, apiResult'[p].value,
                           C16_IsEnergy)]_vars

\* C16 happens: with no site selected, the list solar, vehicle, battery,
\* vehicle has been reduced to its first and third products.
C16_Witness ==
    /\ pc["A"] = "api_done"
    /\ api["A"].name = "GetEnergyProducts"
    /\ selectedSiteID = NoSite
    /\ result["A"].kind = "ok"
    /\ result["A"].body.json
    /\ result["A"].body.products =
         << Product(1, "solar"), Product(2, "vehicle"), Product(3, "battery"),
            Product(4, "vehicle") >>
    /\ apiResult["A"].kind = "nil"
    /\ apiResult["A"].value = << Product(1, "solar"), Product(3, "battery") >>

\* The map key of each optional power field of the live status.
C17_Category ==
    [solar_power |-> "solar", battery_power |-> "battery",
     grid_power |-> "site", load_power |-> "load"]

\* C17: the map GetMetersAggregates returns has an entry for a power category
\* exactly when the category's field is present in the decoded live status,
\* the entry carries the field's value, and there is no other entry; a live
\* status with none of the four fields gives the empty map.
C17_MetersAggregates ==
    [][\A p \in Procs :
         (Finishes(p) /\ api[p].name = "GetMetersAggregates"
          /\ apiResult'[p].kind = "nil")
         => /\ \A f \in DOMAIN C17_Category :
                 IF f \in DOMAIN result[p].body.live
                 THEN << C17_Category[f],
                         [InstantPower |-> result[p].body.live[f]] >>
                        \in apiResult'[p].value
                 ELSE \A e \in apiResult'[p].value : e[1] # C17_Category[f]
            /\ Cardinality(apiResult'[p].value) =
                 Cardinality(DOMAIN result[p].body.live
                             \cap DOMAIN C17_Category)
            /\ (DOMAIN result[p].body.live \cap DOMAIN C17_Category = {})
                 => apiResult'[p].value = {}]_vars

\* C17 happens: a live status whose only power field is grid_power, with the
\* value 0, has given a map with the single entry "site".
C17_Witness ==
    /\ pc["A"] = "api_done"
    /\ api["A"].name = "GetMetersAggregates"
    /\ result["A"].kind = "ok"
    /\ result["A"].body.json
    /\ DOMAIN result["A"].body.live = {"grid_power"}
    /\ apiResult["A"].kind = "nil"
    /\ apiResult["A"].value = {<< "site", [InstantPower |-> 0] >>}

\* The body is JSON that fits the variable the method decodes it into.
C19_Fits(body, c) ==
    /\ body.json
    /\ c.name \in {"GetProducts", "GetEnergyProducts"} => body.shape # "object"
    /\ c.name \in SiteScopedOps \ ControlOps => body.shape # "array"

C18_ExitCodes ==
    cli.pc = "exited"
    => IF cli.err.kind # "none"
       THEN cli.exit = (CASE cli.err.kind = "UnsupportedError" -> 4
                          [] cli.err.kind = "TokenExpiredError" -> 5
                          [] cli.err.kind = "RateLimitError" -> 6
                          [] OTHER -> 1)
       ELSE cli.usage # "" => cli.exit \in {2, 3}

\* ---------------------------------------------------------- the codecs
\* C20: for every duration of Durations, Duration.UnmarshalJSON applied to
\* what Duration.MarshalJSON gives for it succeeds and gives the duration
\* back; and for every timestamp of TimeStamps, NonIsoTime.UnmarshalJSON
\* applied to its text ("2024-01-02 15:04:05 -0700") gives the instant that
\* time.Time gets from its ISO 8601 text ("2024-01-02T15:04:05-07:00"),
\* which for that timestamp is 22:04:05 UTC on 2 January 2024.
C20_CodecRoundTrip ==
    /\ (codec.pc = "decoded" /\ codec.type = "Duration")
       => codec.out.ok /\ codec.out.value = codec.value
    /\ (codec.pc = "decoded" /\ codec.type = "NonIsoTime")
       => /\ codec.out.ok
          /\ codec.isoOut.ok
          /\ codec.out.instant = codec.isoOut.instant
          /\ codec.value = TimeStamp(2024, 1, 2, 15, 4, 5, -25200)
               => codec.out.instant = 1704233045

\* C20 happens: the duration 1h23m45.67s has been encoded as the JSON string
\* "1h23m45.67s" and decoded again.
C20_Witness ==
    /\ codec.pc = "decoded"
    /\ codec.type = "Duration"
    /\ codec.value = DurationValue(FALSE, 5025, 670000000)
    /\ codec.json = << "\"", "1", "h", "2", "3", "m", "4", "5", ".", "6", "7",
                       "s", "\"" >>
    /\ codec.out.ok

\* ------------------------------------------------------ the token refresh
\* The step in which RefreshToken, run by caller p, has its answer.
Answered(p) == pc[p] = "rf_await" /\ pc'[p] # "rf_await"
\* What RefreshToken does with the answer of the token endpoint, a status in
\* Accepted being the ones it goes on to decode.
C21_Outcomes(Accepted) ==
    \A p \in Procs :
        /\ (Answered(p) /\ net[p].kind = "response") =>
              /\ net[p].status \notin Accepted =>
                    /\ pc'[p] = "done"
                    /\ result'[p].kind = "TokenExpiredError"
                    /\ result'[p].token = "refresh"
                    /\ refreshErr'[p] = result'[p]
              /\ (net[p].status \in Accepted /\ ~net[p].body.json) =>
                    /\ pc'[p] = "done"
                    /\ result'[p] = [kind |-> "DecodeError"]
              /\ (net[p].status \in Accepted /\ net[p].body.json) =>
                    /\ pc'[p] = "rf_access"
                    /\ tokenResp'[p] = net[p].body
        /\ (pc[p] = "rf_access" /\ pc'[p] # "rf_access") =>
              accessToken' = tokenResp[p].access_token
        /\ (pc[p] = "rf_expiry" /\ pc'[p] # "rf_expiry") =>
              /\ tokenExpiry' = now + tokenResp[p].expires_in
              /\ refreshErr'[p] = [kind |-> "nil"]

\* C21 (as stated): a non-success status of the token endpoint yields
\* TokenExpiredError with Token "refresh", a success status with a body that is
\* not JSON a decode error, and a success status with a JSON body stores the
\* response's access_token and the time of the refresh plus expires_in seconds;
\* the success statuses being 200 to 299.
C21_SuccessStatuses == [][C21_Outcomes(200..299)]_vars

\* C21 (amended): the same with 200 as the only status RefreshToken accepts;
\* every other status, 201 and 204 among them, yields TokenExpiredError with
\* Token "refresh" whatever the body, and nothing is stored.
C21_RefreshOutcomes == [][C21_Outcomes({StatusOK})]_vars

\* A RefreshToken called directly has returned nil after storing the access
\* token "at2" and an expiry 3600 seconds ahead.
C21_Witness ==
    \E p \in Procs :
        /\ op[p] = "RefreshToken" /\ pc[p] = "done" /\ result[p].kind = "nil"
        /\ issued[p] = "at2" /\ accessToken = "at2"
        /\ tokenExpiry = now + 3600

\* The step in which caller p's doFleetRequest builds and sends its request.
Sends(p) == pc[p] = "send" /\ pc'[p] = "await"

\* C22: the Authorization header of a data request is "Bearer " and the access
\* token the client holds when the request is built; after a refresh in the
\* same call that is the token the refresh was given.
C22_BearerToken ==
    [][\A p \in Procs :
          Sends(p) =>
              /\ net'[p].kind = "data_request"
              /\ net'[p].authorization = << "Bearer ", accessToken >>
              /\ req'[p] = net'[p]
              /\ refreshSent[p] > 0 =>
                    /\ issued[p] # NoToken
                    /\ net'[p].authorization = << "Bearer ", issued[p] >>]_vars

\* A call whose refresh was given "at2" (a token no earlier refresh can have
\* left in the client, since it would not have expired yet) has sent its data
\* request with "Bearer at2".
C22_Witness ==
    \E p \in Procs :
        /\ pc[p] = "await" /\ refreshSent[p] = 1 /\ dataSent[p] = 1
        /\ issued[p] = "at2"
        /\ req[p].authorization = << "Bearer ", "at2" >>

\* ------------------------------------------------- failures of the network
\* C23: when httpClient.Do or the reading of the body fails, in the data
\* request or in the refresh request, the call returns the error the transport
\* made and no other (no ApiError, TokenExpiredError or RateLimitError), and
\* the endpoint method returns that same value, reporting nothing to errFunc.
C23_TransportErrors ==
    [][\A p \in Procs :
          /\ (Answered(p) /\ net[p].kind = "transport_error") =>
                /\ pc'[p] = "done"
                /\ result'[p] = [kind |-> "TransportError", err |-> net[p].err]
                /\ dataSent'[p] = 0
          /\ (pc[p] = "await" /\ pc'[p] # "await"
                /\ net[p].kind = "transport_error") =>
                /\ pc'[p] = "done"
                /\ result'[p] = [kind |-> "TransportError", err |-> net[p].err]
          /\ (Finishes(p) /\ result[p].kind = "TransportError") =>
                /\ apiResult'[p] = result[p]
                /\ errFuncCalls'[p] = errFuncCalls[p]
          /\ (Finishes(p) /\ result[p].kind # "TransportError") =>
                apiResult'[p].kind # "TransportError"]_vars

\* GetStatus has returned the error of a body that could not be read, after
\* one data request.
C23_Witness ==
    \E p \in Procs :
        /\ pc[p] = "api_done" /\ api[p].name = "GetStatus"
        /\ dataSent[p] = 1
        /\ apiResult[p] = [kind |-> "TransportError", err |-> "unexpected EOF"]

\* ------------------------------------------------------- the fresh client
\* The step in which caller p, in rateLimitWait, decides whether to sleep.
Enters_RateLimit(p) == pc[p] = "rl_lock" /\ pc'[p] # "rl_lock"

\* C24: NewClient leaves the token expiry zero, so IsTokenExpired is true; as
\* long as no refresh has succeeded a call that reaches the token check sends a
\* token request and no data request before it, a data request never carries
\* the access token NewClient was given, and the call that finds
\* lastRequestTime zero (the first) is not put to sleep by the limiter.
C24_FreshClient ==
    /\ tokenExpiry = ZeroTime /\ IsTokenExpired(now, tokenExpiry)
    /\ lastRequestTime = ZeroTime /\ accessToken = InitialAccessToken
    /\ [][\A p \in Procs :
             /\ (Checks(p) /\ tokenExpiry = ZeroTime) =>
                   expired'[p] /\ pc'[p] = "rf_send" /\ dataSent[p] = 0
             /\ Sends(p) =>
                   /\ tokenExpiry # ZeroTime
                   /\ net'[p].authorization # << "Bearer ", InitialAccessToken >>
             /\ (Enters_RateLimit(p) /\ lastRequestTime = ZeroTime) =>
                   pc'[p] # "rl_sleep"]_vars

\* The first call of a fresh client went through the limiter at once, sent a
\* token request, had it rejected and returned without a data request: the
\* client still holds the access token it was given.
C24_Witness ==
    \E p \in Procs :
        /\ op[p] = "doFleetRequest" /\ pc[p] = "done"
        /\ lastRequestTime = StartTime /\ now = StartTime
        /\ refreshSent[p] = 1 /\ dataSent[p] = 0
        /\ result[p].kind = "TokenExpiredError" /\ result[p].token = "refresh"
        /\ accessToken = InitialAccessToken /\ tokenExpiry = ZeroTime

\* The answers with which RefreshToken fails.
C25_Fails(resp) ==
    \/ resp.kind = "transport_error"
    \/ resp.kind = "response" /\ resp.status # 200
    \/ resp.kind = "response" /\ ~resp.body.json

\* C25: a RefreshToken that fails (a status other than 200, an error of the
\* transport or of reading the body, a body that is not JSON) changes neither
\* the access token, nor the refresh token, nor the token expiry: it sends its
\* request and returns with the error without an assignment, the three fields
\* being assigned only in the steps that follow a decoded response (and the
\* refresh token by SetRefreshToken).
C25_FailedRefresh ==
    [][/\ \A p \in Procs :
             /\ (pc[p] = "rf_send" /\ pc'[p] # "rf_send") =>
                   /\ pc'[p] = "rf_await"
                   /\ UNCHANGED << accessToken, refreshToken, tokenExpiry >>
             /\ (Answered(p) /\ C25_Fails(net[p])) =>
                   /\ pc'[p] = "done"
                   /\ result'[p].kind \in
                         {"TransportError", "TokenExpiredError", "DecodeError"}
                   /\ issued'[p] = NoToken
                   /\ UNCHANGED << accessToken, refreshToken, tokenExpiry >>
       /\ accessToken' # accessToken => \E p \in Procs : pc[p] = "rf_access"
       /\ tokenExpiry' # tokenExpiry => \E p \in Procs : pc[p] = "rf_expiry"
       /\ refreshToken' # refreshToken =>
             \/ \E p \in Procs : pc[p] = "rf_refresh"
             \/ pc' = pc /\ refreshToken' \in SetTokens]_vars

\* A RefreshToken called directly has failed on a body that is not JSON; the
\* tokens and the expiry an earlier refresh stored are still in place.
C25_Witness ==
    \E p \in Procs :
        /\ op[p] = "RefreshToken" /\ pc[p] = "done"
        /\ result[p].kind = "DecodeError"
        /\ accessToken = "at1" /\ refreshToken = "rt1"
        /\ tokenExpiry = StartTime + 3600
        /\ issued[p] = NoToken

\* C26: at the return of a RefreshToken that succeeded IsTokenExpired is false
\* and the stored access token is not empty, whatever the body of the 200
\* response (a small, zero or absent expires_in, an absent access_token); so a
\* call that follows a refresh within the same second does not refresh again.
C26_UsableAfterRefresh ==
    [][\A p \in Procs :
          /\ (pc[p] = "rf_expiry" /\ pc'[p] # "rf_expiry") =>
                /\ ~IsTokenExpired(now', tokenExpiry')
                /\ accessToken' # ""
          /\ (Checks(p) /\ tokenExpiry # ZeroTime /\ now = lastRequestTime
                /\ tokenExpiry >= now) => ~expired'[p]]_vars

\* ------------------------------------------------ the data response's frame
\* C27: a data response with an error status (401, 429, any other) leaves the
\* access token, the refresh token and the token expiry as they were; so while
\* the client holds a token the Fleet API has answered 401 to, a call that
\* finds the token not expired sends no token request and sends that same
\* token again.
C27_ErrorStatusFrame ==
    [][\A p \in Procs :
          /\ (Classifies(p) /\ ~IsSuccess(net[p].status)) =>
                /\ UNCHANGED << accessToken, refreshToken, tokenExpiry >>
                /\ net[p].status = StatusUnauthorized =>
                      /\ req[p].authorization = << "Bearer ", accessToken >>
                            => rejected' = accessToken
                      /\ IsTokenExpired(now', tokenExpiry')
                            = IsTokenExpired(now, tokenExpiry)
          /\ (Checks(p) /\ rejected # NoToken
                /\ ~IsTokenExpired(now, tokenExpiry)) =>
                /\ pc'[p] = "send"
                /\ refreshSent'[p] = 0
          /\ (Sends(p) /\ rejected # NoToken /\ refreshSent[p] = 0) =>
                net'[p].authorization = << "Bearer ", rejected >>]_vars

\* A call that made no token request has sent "Bearer at1" a second after the
\* Fleet API answered 401 to "at1" in an earlier call.
C27_Witness ==
    \E p \in Procs :
        /\ pc[p] = "await" /\ refreshSent[p] = 0 /\ dataSent[p] = 1
        /\ rejected = "at1" /\ accessToken = "at1"
        /\ req[p].authorization = << "Bearer ", "at1" >>
        /\ lastRequestTime > StartTime

\* ------------------------------------------------------------ the limiter
\* C28: whatever value SetRateLimit stored (0, a negative value and a value
\* above 60 included), rateLimitWait ends without a runtime fault and with the
\* mutex released: no caller is ever stopped by a panic, and a caller holds the
\* mutex only inside rateLimitWait.
C28_NoRuntimeFault ==
    \A p \in Procs :
        /\ pc[p] # "panicked"
        /\ rateLimitMutex = p => pc[p] \in {"rl_sleep", "rl_stamp"}

\* The positions of a call that is in rateLimitWait, and of one that is past it.
C29_InLimiter == {"rl_lock", "rl_sleep", "rl_stamp"}
C29_PastLimiter == {"check", "send", "await", "done", "api_done"} \cup RefreshPCs
\* How often each call has assigned lastRequestTime: once when it is past
\* rateLimitWait, whatever it returns, and not at all when it is in
\* rateLimitWait, when it is a RefreshToken called directly or when the
\* endpoint method has returned without entering doFleetRequest.
C29_Counted ==
    \A p \in Procs :
        /\ op[p] = "doFleetRequest" =>
              /\ pc[p] \in C29_InLimiter \cup C29_PastLimiter
              /\ pc[p] \in C29_InLimiter => stamped[p] = 0
              /\ pc[p] \in C29_PastLimiter => stamped[p] = 1
        /\ op[p] # "doFleetRequest" => stamped[p] = 0

\* C29: under the default rate limit every call that reaches doFleetRequest
\* moves lastRequestTime forward once, in rateLimitWait and so before its
\* outcome is known; lastRequestTime changes in no other step: not in a method
\* that fails before its request, not in RefreshToken, and not when
\* doFleetRequest sends its token request, which does not pass the limiter.
C29_LastRequestTime ==
    /\ C29_Counted
    /\ [][/\ C29_Counted'
          /\ lastRequestTime' >= lastRequestTime
          /\ lastRequestTime' # lastRequestTime => \E p \in Procs : Stamps(p)
          /\ \A p \in Procs :
                /\ Stamps(p) =>
                      /\ lastRequestTime' = now
                      /\ lastRequestTime' > lastRequestTime
                /\ (Enters(p) /\ Validate(api'[p], selectedSiteID).kind # "none")
                      => /\ pc'[p] = "api_done"
                         /\ op'[p] # "doFleetRequest"
                /\ (pc[p] = "rf_send" /\ pc'[p] = "rf_await") =>
                      /\ net'[p].kind = "token_request"
                      /\ rateLimitMutex' # p]_vars

\* A call has passed the limiter a second after the client was made, sent its
\* token request in that same second and returned the refresh's error: it has
\* assigned lastRequestTime once and sent no data request.
C29_Witness ==
    \E p \in Procs :
        /\ op[p] = "doFleetRequest" /\ pc[p] = "api_done"
        /\ apiResult[p].kind = "TokenExpiredError"
        /\ apiResult[p].token = "refresh"
        /\ stamped[p] = 1 /\ dataSent[p] = 0
        /\ lastRequestTime = StartTime + 1 /\ now = lastRequestTime

\* ------------------------------------------------------------ termination
\* Where the mutex may be held: inside rateLimitWait, never during an HTTP
\* exchange.
C30_MutexInsideLimiter ==
    \A p \in Procs :
        /\ rateLimitMutex = p => pc[p] \in {"rl_sleep", "rl_stamp"}
        /\ net[p].kind # "none" => rateLimitMutex # p

\* C30: with concurrent callers, every HTTP exchange answered and the mutex
\* granted fairly, every call that enters doFleetRequest returns; the mutex is
\* held only inside rateLimitWait and released when it ends, and a caller
\* sleeps no longer than one minimum interval holding it.
C30_Terminates ==
    /\ \A p \in Procs : (pc[p] = "rl_lock") ~> (pc[p] = "done")
    /\ [][/\ C30_MutexInsideLimiter'
          /\ \A p \in Procs :
                /\ Enters_RateLimit(p) =>
                      /\ rateLimitMutex = NoProc
                      /\ pc'[p] = "rl_sleep" =>
                            /\ wake'[p] > now
                            /\ wake'[p] <= now + Interval(rpm)
                /\ Stamps(p) =>
                      rateLimitMutex = p /\ rateLimitMutex' = NoProc]_vars

\* Caller B waits for the mutex while caller A, which has made a call before,
\* sleeps holding it and cannot wake yet.
C30_Witness ==
    /\ pc["A"] = "rl_sleep" /\ rateLimitMutex = "A" /\ wake["A"] > now
    /\ pc["B"] = "rl_lock"
    /\ accessToken = "at1"

====
